---- MODULE Spec2Model ----
(***************************************************************************)
(* HDHomeRun discovery and device client (pyhdhr), as a state machine.     *)
(*                                                                         *)
(* The entry points are modelled one per scenario:                         *)
(*   "discover"    Discover.discover (discover.py): the HTTP directory     *)
(*                 branch, the UDP branch with its merge, and the HTTP     *)
(*                 enrichment pass, one rediscover per device;             *)
(*   "refresh"     the HDHomeRunDevice of discover.py: tuner refresh over  *)
(*                 HTTP and over the control protocol;                     *)
(*   "rediscover"  the same device's async_rediscover;                     *)
(*   "gather"      the HDHomeRunDevice of device.py: the tag-by-tag merge  *)
(*                 of _async_gather_details_udp;                           *)
(*   "status"      the same device's tuner status queries;                 *)
(*   "window"      DiscoverUDP.discover: the endpoint, the sleep and the   *)
(*                 datagrams received during it;                           *)
(*   "parse"       the decoding of a tuner's status value;                 *)
(*   "merge"       DiscoverHTTP.rediscover and the UDP merge loop applied  *)
(*                 to a device again with the same source;                 *)
(*   "tuners"      the loops over the tuners' replies of the two devices;  *)
(*   "http"        DiscoverHTTP.discover: the GET and the parsing;         *)
(*   "phases"      Discover.discover, every await a step of its own;       *)
(*   "details"     _async_gather_details_http and the properties of the    *)
(*                 HDHomeRunDevice of device.py;                           *)
(*   "codec"       build_request and parse_response of the protocol.       *)
(*                                                                         *)
(* Python's Optional[T] is a sequence of length at most one: None is <<>>  *)
(* and a value v is <<v>>, so that None, "" and 0 stay three different     *)
(* values.  A URL is the record of its hostname and its path.              *)
(***************************************************************************)
EXTENDS Integers, Sequences, FiniteSets, TLC

None == <<>>
Some(v) == <<v>>

\* Python truthiness of an optional string / an optional integer.
TruthyStr(o) == o # None /\ o[1] # ""
TruthyInt(o) == o # None /\ o[1] # 0

Url(h, p) == [host |-> h, path |-> p]
urlparse_hostname(u) == u.host

(***************************************************************************)
(* Bounds of the model.                                                    *)
(***************************************************************************)
MaxHttp == 1      \* JSON objects in one HTTP directory response
MaxUdp == 2       \* reply datagrams collected in one UDP window

Hosts == {"10.0.0.5", "10.0.0.6"}
UdpHosts == {"10.0.0.5"}
DirectoryHost == "ipv4-api.hdhomerun.com"
\* 0x1234ABCD and 0x00001234, the devices "1234ABCD" and "00001234" of the
\* HTTP directory as their UDP replies carry them
UdpRawIds == {305441741, 4660}

SeqUpTo(S, n) == UNION {[1..k -> S] : k \in 0..n}

(***************************************************************************)
(* The device record of discover.py.                                       *)
(***************************************************************************)
HDHomeRunDevice(host) ==
    [host |-> Some(host),
     available_firmware |-> None,
     base_url |-> None,
     channels |-> Some(<<>>),
     device_auth_str |-> None,
     device_id |-> None,
     device_type |-> None,
     discover_url |-> None,
     discovery_method |-> None,
     friendly_name |-> None,
     is_online |-> TRUE,
     lineup_url |-> None,
     sys_hwmodel |-> None,
     sys_model |-> None,
     sys_version |-> None,
     tuner_count |-> None,
     tuner_status |-> None]

JSON_PROPERTIES_MAP ==
    ("BaseURL" :> "base_url") @@ ("DeviceAuth" :> "device_auth_str") @@
    ("DeviceID" :> "device_id") @@ ("DiscoverURL" :> "discover_url") @@
    ("FirmwareName" :> "sys_model") @@ ("FirmwareVersion" :> "sys_version") @@
    ("FriendlyName" :> "friendly_name") @@ ("LineupURL" :> "lineup_url") @@
    ("LocalIP" :> "host") @@ ("ModelNumber" :> "sys_hwmodel") @@
    ("TunerCount" :> "tuner_count") @@ ("UpgradeAvailable" :> "available_firmware")

TAG_PROPERTY_MAP ==
    ("BASE_URL" :> "base_url") @@ ("DEVICE_AUTH_STR" :> "device_auth_str") @@
    ("DEVICE_ID" :> "device_id") @@ ("DEVICE_TYPE" :> "device_type") @@
    ("LINEUP_URL" :> "lineup_url") @@ ("TUNER_COUNT" :> "tuner_count")

Range(f) == {f[k] : k \in DOMAIN f}

\* setattr(dev, name, value)
setattr(dev, name, value) == [dev EXCEPT ![name] = value]

(***************************************************************************)
(* JSON objects.  An object maps each key it holds to a value; a key it    *)
(* does not hold maps to None.  "StorageURL" is a key of no table.         *)
(***************************************************************************)
JsonKeys == DOMAIN JSON_PROPERTIES_MAP \cup {"StorageURL"}

JsonObject(id, ip, base, durl) ==
    [k \in JsonKeys |->
        CASE k = "DeviceID" -> id
          [] k = "LocalIP" -> ip
          [] k = "BaseURL" -> base
          [] k = "DiscoverURL" -> durl
          [] k = "StorageURL" -> Some("storage")
          [] OTHER -> None]

\* The devices the directory knows, and where.
DirectoryKnows ==
    {[id |-> "1234ABCD", ip |-> "10.0.0.5"], [id |-> "00001234", ip |-> "10.0.0.5"],
     [id |-> "1234ABCD", ip |-> "10.0.0.6"]}

\* What the directory answers: one object per device it knows.
DirectoryObjects ==
    {JsonObject(Some(k.id), Some(k.ip), base, Some(Url(k.ip, "/discover.json"))) :
        k \in DirectoryKnows, base \in {Some(""), Some("http-base")}}

\* What a device answers on its own discover.json.
DeviceObjects ==
    {JsonObject(id, None, base, None) :
        id \in {None, Some("00001234")}, base \in {None, Some(""), Some("http-base")}}

\* A JSON body: an array of objects, or one object; the empty object is an
\* "object" body with no item.
JsonArray(items) == [kind |-> "array", items |-> items]
JsonSingle(items) == [kind |-> "object", items |-> items]

DirectoryBodies ==
    {JsonArray(s) : s \in SeqUpTo(DirectoryObjects, MaxHttp)}
    \cup {JsonSingle(<<o>>) : o \in DirectoryObjects}

DeviceBodies ==
    {JsonSingle(<<o>>) : o \in DeviceObjects} \cup {JsonSingle(<<>>), JsonArray(<<>>)}

(***************************************************************************)
(* DiscoverHTTP.discover, given the body of a 2xx response.                *)
(***************************************************************************)
DeviceFromJson(obj, hostname) ==
    LET fresh == HDHomeRunDevice(IF TruthyStr(obj["LocalIP"])
                                 THEN obj["LocalIP"][1] ELSE hostname)
    IN  [f \in DOMAIN fresh |->
            IF \E k \in DOMAIN JSON_PROPERTIES_MAP :
                   JSON_PROPERTIES_MAP[k] = f /\ obj[k] # None
            THEN obj[CHOOSE k \in DOMAIN JSON_PROPERTIES_MAP :
                         JSON_PROPERTIES_MAP[k] = f]
            ELSE fresh[f]]

\* if resp_json:  (not an empty list or dictionary)
ResponseHasItems(body) == body.items # <<>>

\* a normalisation that takes arrays only
AsListOnlyArrays(body) == IF body.kind = "array" THEN body.items ELSE <<>>

\* if not isinstance(resp_json, list): resp_json = [resp_json]
AsList(body) == IF body.kind = "array" THEN body.items ELSE <<body.items[1]>>

DiscoverHTTP_discover(hostname, body) ==
    IF ~ResponseHasItems(body) THEN <<>>
    ELSE [i \in 1..Len(AsList(body)) |-> DeviceFromJson(AsList(body)[i], hostname)]

(***************************************************************************)
(* _DiscoverProtocol.datagram_received: the decoding of one reply.         *)
(***************************************************************************)
HexDigit(d) ==
    CASE d = 0 -> "0" [] d = 1 -> "1" [] d = 2 -> "2" [] d = 3 -> "3"
      [] d = 4 -> "4" [] d = 5 -> "5" [] d = 6 -> "6" [] d = 7 -> "7"
      [] d = 8 -> "8" [] d = 9 -> "9" [] d = 10 -> "A" [] d = 11 -> "B"
      [] d = 12 -> "C" [] d = 13 -> "D" [] d = 14 -> "E" [] OTHER -> "F"

RECURSIVE HexString(_)
HexString(n) ==
    IF n < 16 THEN HexDigit(n) ELSE HexString(n \div 16) \o HexDigit(n % 16)

RECURSIVE ZeroPad(_, _)
ZeroPad(s, width) == IF Len(s) < width THEN ZeroPad("0" \o s, width) ELSE s

\* f"{property_value:04X}"
Format04X(n) == ZeroPad(HexString(n), 4)

IntTags == {"DEVICE_TYPE", "TUNER_COUNT"}

\* The value a tag decodes to, from the tag's raw value.
DecodeTag(tag, raw) ==
    IF tag = "DEVICE_ID" THEN Format04X(raw) ELSE raw

\* if property_value:
TruthyValue(tag, value) ==
    IF tag \in IntTags THEN value # 0 ELSE value # ""

\* A datagram: where it came from, its header, and its tags (None: no such tag).
Datagram(addr, header, id, base, count) ==
    [addr |-> addr, header |-> header,
     data |-> [t \in DOMAIN TAG_PROPERTY_MAP |->
                  CASE t = "DEVICE_ID" -> id
                    [] t = "BASE_URL" -> base
                    [] t = "TUNER_COUNT" -> count
                    [] OTHER -> None]]

DiscoverReplies ==
    {Datagram(a, "DISCOVER_RPY", Some(id), base, None) :
        a \in UdpHosts, id \in UdpRawIds, base \in {None, Some(""), Some("udp-base")}}

DeviceFromDatagram(dgram) ==
    LET fresh == HDHomeRunDevice(dgram.addr)
    IN  [f \in DOMAIN fresh |->
            IF \E t \in DOMAIN TAG_PROPERTY_MAP :
                   /\ TAG_PROPERTY_MAP[t] = f
                   /\ dgram.data[t] # None
                   /\ TruthyValue(t, DecodeTag(t, dgram.data[t][1]))
            THEN LET t == CHOOSE t \in DOMAIN TAG_PROPERTY_MAP : TAG_PROPERTY_MAP[t] = f
                 IN  Some(DecodeTag(t, dgram.data[t][1]))
            ELSE fresh[f]]

\* DiscoverUDP.discover: the devices of the replies of one window, in order.
DiscoverUDP_discover(dgrams) ==
    [i \in 1..Len(dgrams) |-> DeviceFromDatagram(dgrams[i])]

(***************************************************************************)
(* DiscoverHTTP.rediscover.  A failed GET (connection failure, timeout,    *)
(* non-2xx status) reaches it as HDHomeRunHTTPDiscoveryNotAvailableError.  *)
(***************************************************************************)
HttpFailures == {"connection_error", "timeout", "http_error"}

\* discover_url of the target, or the one built from its address
RediscoverUrl(target) ==
    IF target.discover_url # None THEN target.discover_url[1]
    ELSE Url(target.host[1], "/discover.json")

\* updated_device[0] raises IndexError when the body gave no device
RediscoverRaises(target, body) ==
    DiscoverHTTP_discover(urlparse_hostname(RediscoverUrl(target)), body) = <<>>

\* if (property_value := getattr(updated_device, property_name, None)) is not None
RediscoverTakes(value) == value # None

\* a rediscover that sets the discover_url and leaves the discovery method
RediscoverMarkUrlOnly(target) ==
    setattr(target, "discover_url", Some(RediscoverUrl(target)))

\* lines 297-298, which run before updated_device[0] is read
RediscoverMark(target) ==
    setattr(setattr(target, "discover_url", Some(RediscoverUrl(target))),
            "discovery_method", Some("HTTP"))

\* a rediscover that hands back the device it built from the response
RediscoverReturnsUpdated(target_ref, updated_ref) == updated_ref

\* line 310: return target
RediscoverReturns(target_ref, updated_ref) == target_ref

\* line 299: updated_device = updated_device[0]
RediscoverUpdated(target, body) ==
    DiscoverHTTP_discover(urlparse_hostname(RediscoverUrl(target)), body)[1]

\* the target after the else: branch of rediscover
RediscoverMerge(target, body) ==
    LET updated == RediscoverUpdated(target, body)
        marked == RediscoverMark(target)
    IN  [f \in DOMAIN marked |->
            IF f \in Range(JSON_PROPERTIES_MAP) /\ RediscoverTakes(updated[f])
            THEN updated[f] ELSE marked[f]]

(***************************************************************************)
(* The device map of Discover.discover: a dict, in insertion order.        *)
(***************************************************************************)
Keys(map) == {map[i].key : i \in 1..Len(map)}
IndexOf(map, key) == CHOOSE i \in 1..Len(map) : map[i].key = key
Values(map) == [i \in 1..Len(map) |-> map[i].dev]

\* a list of devices, where every record is one more entry
DictAppend(map, key, dev) == Append(map, [key |-> key, dev |-> dev])

\* devices[key] = dev
DictSet(map, key, dev) ==
    IF key \in Keys(map)
    THEN [map EXCEPT ![IndexOf(map, key)].dev = dev]
    ELSE Append(map, [key |-> key, dev |-> dev])

\* lines 94-96: every HTTP device enters the map under its device_id
RECURSIVE InsertHttp(_, _)
InsertHttp(map, found) ==
    IF found = <<>> THEN map
    ELSE InsertHttp(DictSet(map, Head(found).device_id,
                            setattr(Head(found), "discovery_method", Some("HTTP"))),
                    Tail(found))

\* a merge that writes every property of the UDP device, None included
MergeTakesAlways(value) == TRUE

\* if (property_value := getattr(dev, property_name, None)) is not None
MergeTakes(value) == value # None

\* a merge that leaves the device of the map as HTTP gave it
MergeUdpIntoKeepsHttp(existing, dev) == existing

\* lines 109-117: the properties of a UDP device written onto the device
\* already in the map
MergeUdpInto(existing, dev) ==
    [f \in DOMAIN existing |->
        IF f \in Range(TAG_PROPERTY_MAP) /\ MergeTakes(dev[f])
        THEN dev[f] ELSE existing[f]]

\* lines 104-117
RECURSIVE MergeUdp(_, _)
MergeUdp(map, found) ==
    IF found = <<>> THEN map
    ELSE LET dev == Head(found)
             key == dev.device_id
         IN  MergeUdp(IF key \notin Keys(map)
                      THEN DictSet(map, key, setattr(dev, "discovery_method", Some("UDP")))
                      ELSE DictSet(map, key, MergeUdpInto(map[IndexOf(map, key)].dev, dev)),
                      Tail(found))

(***************************************************************************)
(* State.                                                                  *)
(*   scenario    the entry point this run exercises                        *)
(*   mode        Discover._mode                                            *)
(*   pc          where Discover.discover is: "http", "udp", "enrich",      *)
(*               "done" (returned) or "raised" (left by an exception)      *)
(*   devices     the dict devices, in insertion order                      *)
(*   idx         the entry the enrichment loop is at                       *)
(*   result      the list returned                                         *)
(*   exc         the exception that left the call, "none" if none          *)
(*   http_found  what the HTTP directory branch did and the devices it got *)
(*   udp_found   what the UDP branch did and the devices it got            *)
(*   merged      the dict as the UDP merge left it                         *)
(*   io          the outcome of the last request of the enrichment pass    *)
(*   dev         the HDHomeRunDevice (discover.py) the caller holds        *)
(*   ret         the device async_rediscover works on and returns          *)
(*   rpc         where async_rediscover is: "idle" or "lineup"             *)
(*   last        the last operation on dev, the outcome of each of its     *)
(*               requests, and the exception that left it                  *)
(*   gdev        the HDHomeRunDevice (device.py) the caller holds          *)
(*   glast       the same as last, for gdev                                *)
(*   wpc         where DiscoverUDP.discover is: "start", "waiting",        *)
(*               "returned" or "raised"                                    *)
(*   clock       the ticks of its sleep that have passed                   *)
(*   transport   the datagram transport: "none", "open" or "closed"        *)
(*   sent        the packets _DiscoverProtocol has sent, in order          *)
(*   heard       the datagrams the endpoint has received, in order         *)
(*   discovered_devices   _DiscoverProtocol.discovered_devices             *)
(*   wresult     the list DiscoverUDP.discover returned                    *)
(*   wexc        the exception that left DiscoverUDP.discover              *)
(*   arg, out    the argument a function was applied to, and its result;   *)
(*               for a merge, the target and the source, and the target    *)
(*               after each merge of the source; in "phases", out holds    *)
(*               what each rediscover of the enrichment got, in order      *)
(*   returned    what the last DiscoverHTTP.rediscover returned: the       *)
(*               reference ("target", or "updated" for the device built    *)
(*               from the response) and that device                        *)
(***************************************************************************)
VARIABLES scenario, mode, pc, devices, idx, result, exc,
          http_found, udp_found, merged, io,
          dev, ret, rpc, last, gdev, glast,
          wpc, clock, transport, sent, heard, discovered_devices, wresult, wexc,
          arg, out, returned

discoverVars == <<mode, pc, devices, idx, result, exc,
                  http_found, udp_found, merged, io>>
deviceVars == <<dev, ret, rpc, last>>
gatherVars == <<gdev, glast>>
windowVars == <<wpc, clock, transport, sent, heard, discovered_devices, wresult, wexc>>
callVars == <<arg, out, returned>>
vars == <<scenario, discoverVars, deviceVars, gatherVars, windowVars, callVars>>

Modes == {"AUTO", "HTTP", "UDP"}

\* a gate that lets every mode run the branch
EveryMode == Modes

\* line 86: if self._mode in (DiscoverMode.AUTO, DiscoverMode.HTTP)
HttpModes == {"AUTO", "HTTP"}

\* line 100: if self._mode in (DiscoverMode.AUTO, DiscoverMode.UDP)
UdpModes == {"AUTO", "UDP"}

NothingReturned == [ref |-> None, updated |-> None]

InitDiscover ==
    /\ mode \in Modes
    /\ pc = "http"
    /\ devices = <<>>
    /\ idx = 1
    /\ result = <<>>
    /\ exc = "none"
    /\ http_found = [out |-> "none", devs |-> <<>>]
    /\ udp_found = [out |-> "none", devs |-> <<>>]
    /\ merged = <<>>
    /\ io = "none"

\* the parts of the state a scenario does not use
DiscoverUnused ==
    /\ mode = "AUTO"
    /\ pc = "unused"
    /\ devices = <<>>
    /\ idx = 1
    /\ result = <<>>
    /\ exc = "none"
    /\ http_found = [out |-> "none", devs |-> <<>>]
    /\ udp_found = [out |-> "none", devs |-> <<>>]
    /\ merged = <<>>
    /\ io = "none"

NoCall == [op |-> "none", io |-> <<>>, exc |-> "none"]

DeviceUnused ==
    /\ dev = HDHomeRunDevice("unused")
    /\ ret = None
    /\ rpc = "idle"
    /\ last = NoCall

GatherUnused ==
    /\ gdev = None
    /\ glast = NoCall

WindowUnused ==
    /\ wpc = "unused"
    /\ clock = 0
    /\ transport = "none"
    /\ sent = <<>>
    /\ heard = <<>>
    /\ discovered_devices = <<>>
    /\ wresult = <<>>
    /\ wexc = "none"

CallUnused ==
    /\ arg = None
    /\ out = None
    /\ returned = NothingReturned

Init ==
    /\ scenario = "discover"
    /\ InitDiscover
    /\ DeviceUnused
    /\ GatherUnused
    /\ WindowUnused
    /\ CallUnused

(***************************************************************************)
(* Discover.discover, lines 85-97: the HTTP directory branch.              *)
(***************************************************************************)
HttpBranchUnavailable ==
    /\ scenario = "discover" /\ pc = "http"
    /\ mode \in HttpModes
    /\ \E failure \in HttpFailures :
           http_found' = [out |-> "unavailable", devs |-> <<>>]
    /\ pc' = "udp"
    /\ UNCHANGED <<scenario, windowVars, callVars, deviceVars, gatherVars, mode, devices, idx, result, exc, udp_found, merged, io>>

HttpBranchFound ==
    /\ scenario = "discover" /\ pc = "http"
    /\ mode \in HttpModes
    /\ \E body \in DirectoryBodies :
           LET found == DiscoverHTTP_discover(DirectoryHost, body)
           IN  /\ http_found' = [out |-> "ok", devs |-> found]
               /\ devices' = InsertHttp(devices, found)
    /\ pc' = "udp"
    /\ UNCHANGED <<scenario, windowVars, callVars, deviceVars, gatherVars, mode, idx, result, exc, udp_found, merged, io>>

HttpBranchSkipped ==
    /\ scenario = "discover" /\ pc = "http"
    /\ mode \notin HttpModes
    /\ http_found' = [out |-> "skipped", devs |-> <<>>]
    /\ pc' = "udp"
    /\ UNCHANGED <<scenario, windowVars, callVars, deviceVars, gatherVars, mode, devices, idx, result, exc, udp_found, merged, io>>

(***************************************************************************)
(* Lines 99-118: the UDP branch and its merge into the map.                *)
(***************************************************************************)
UdpBranch ==
    /\ scenario = "discover" /\ pc = "udp"
    /\ mode \in UdpModes
    /\ \E dgrams \in SeqUpTo(DiscoverReplies, MaxUdp) :
           LET found == DiscoverUDP_discover(dgrams)
           IN  /\ udp_found' = [out |-> "ok", devs |-> found]
               /\ devices' = MergeUdp(devices, found)
               /\ merged' = MergeUdp(devices, found)
    /\ pc' = "enrich"
    /\ UNCHANGED <<scenario, windowVars, callVars, deviceVars, gatherVars, mode, idx, result, exc, http_found, io>>

UdpBranchSkipped ==
    /\ scenario = "discover" /\ pc = "udp"
    /\ mode \notin UdpModes
    /\ udp_found' = [out |-> "skipped", devs |-> <<>>]
    /\ merged' = devices
    /\ pc' = "enrich"
    /\ UNCHANGED <<scenario, windowVars, callVars, deviceVars, gatherVars, mode, devices, idx, result, exc, http_found, io>>

(***************************************************************************)
(* Lines 120-127: one DiscoverHTTP.rediscover per device of the map.       *)
(***************************************************************************)
EnrichUnavailable ==
    /\ scenario = "discover" /\ pc = "enrich" /\ idx <= Len(devices)
    /\ \E failure \in HttpFailures : io' = "unavailable"
    /\ idx' = idx + 1
    /\ UNCHANGED <<scenario, windowVars, callVars, deviceVars, gatherVars, mode, pc, devices, result, exc, http_found, udp_found, merged>>

EnrichAnswered ==
    /\ scenario = "discover" /\ pc = "enrich" /\ idx <= Len(devices)
    /\ \E body \in DeviceBodies :
           LET target == devices[idx].dev
           IN  IF RediscoverRaises(target, body)
               THEN /\ io' = "empty"
                    /\ pc' = "raised"
                    /\ exc' = "IndexError"
                    /\ devices' = [devices EXCEPT ![idx].dev = RediscoverMark(target)]
                    /\ UNCHANGED idx
               ELSE /\ io' = "ok"
                    /\ devices' = [devices EXCEPT ![idx].dev = RediscoverMerge(target, body)]
                    /\ idx' = idx + 1
                    /\ UNCHANGED <<pc, exc>>
    /\ UNCHANGED <<scenario, windowVars, callVars, deviceVars, gatherVars, mode, result, http_found, udp_found, merged>>

\* line 132: return list(devices.values())
Return ==
    /\ scenario = "discover" /\ pc = "enrich" /\ idx > Len(devices)
    /\ result' = Values(devices)
    /\ pc' = "done"
    /\ UNCHANGED <<scenario, windowVars, callVars, deviceVars, gatherVars, mode, devices, idx, exc, http_found, udp_found, merged, io>>

Next ==
    \/ HttpBranchUnavailable
    \/ HttpBranchFound
    \/ HttpBranchSkipped
    \/ UdpBranch
    \/ UdpBranchSkipped
    \/ EnrichUnavailable
    \/ EnrichAnswered
    \/ Return

Spec == Init /\ [][Next]_vars

(***************************************************************************)
(* Tuner status over the control protocol.  A status value is the string   *)
(* of space-delimited tag=value details, kept as the sequence of its       *)
(* <<tag, value>> pairs; a variable name is the sequence of the parts      *)
(* "/" splits it into.                                                     *)
(***************************************************************************)
MaxTuners == 2    \* tuners of a device

\* int(value): None stands for ValueError
ParseInt(str) ==
    CASE str = "0" -> Some(0)
      [] str = "00" -> Some(0)
      [] str = "-5" -> Some(0 - 5)
      [] str = "5" -> Some(5)
      [] str = "80" -> Some(80)
      [] str = "90" -> Some(90)
      [] str = "95" -> Some(95)
      [] OTHER -> None

TunerName(i) ==
    CASE i = 0 -> "tuner0" [] i = 1 -> "tuner1" [] i = 2 -> "tuner2" [] OTHER -> "tuner3"

StatusIdle ==
    << <<"ch", "none">>, <<"lock", "none">>, <<"ss", "0">>, <<"snq", "0">>,
       <<"seq", "0">>, <<"bps", "0">>, <<"pps", "0">> >>
StatusNoSymbol ==
    << <<"ch", "8vsb:183000000">>, <<"lock", "8vsb">>, <<"ss", "80">>, <<"snq", "90">>,
       <<"seq", "0">>, <<"bps", "0">>, <<"pps", "0">> >>
StatusLocked ==
    << <<"ch", "8vsb:183000000">>, <<"lock", "8vsb">>, <<"ss", "80">>, <<"snq", "0">>,
       <<"seq", "95">>, <<"bps", "80">>, <<"pps", "0">> >>

StatusKeys ==
    ("seq" :> "SymbolQualityPercent") @@ ("snq" :> "SignalQualityPercent") @@
    ("ss" :> "SignalStrengthPercent")

\* a decoding that keeps every integer
StatusKeepsZero(value) == TRUE

\* if value != 0:  (after int(value) succeeded)
StatusKeeps(value) == value # 0

\* the details that enter the record: a known tag, an integer, kept
StatusEntries(details) ==
    {i \in 1..Len(details) :
        /\ details[i][1] \in DOMAIN StatusKeys
        /\ ParseInt(details[i][2]) # None
        /\ StatusKeeps(ParseInt(details[i][2])[1])}

\* lines 591-610 (device.py 238-258): the record of one tuner's reply
ParseStatus(reply) ==
    LET details == reply.value
        entries == StatusEntries(details)
        keys == {StatusKeys[details[i][1]] : i \in entries}
    IN  [k \in {"Resource"} \cup keys |->
            IF k = "Resource" THEN reply.name[2]
            ELSE LET i == CHOOSE i \in entries :
                              /\ StatusKeys[details[i][1]] = k
                              /\ \A j \in entries :
                                     StatusKeys[details[j][1]] = k => j <= i
                 IN  ParseInt(details[i][2])[1]]

\* What a tuner answers to the three channel queries: its virtual channel,
\* its channel-name table (each line "<id>: <number> <name>", kept as the id
\* and the words after it), and its target (None: "none").
ChannelAnswer(vchannel, names, target) ==
    [vchannel |-> vchannel, names |-> names, target |-> target]
NamesOther == << [id |-> "7", words |-> <<"7.1", "KQED">>] >>
NamesTuned == << [id |-> "7", words |-> <<"7.1", "KQED">>],
                 [id |-> "5", words |-> <<"5.1", "KPIX">>] >>
NoChannel == ChannelAnswer("none", <<>>, None)
ChannelAnswers ==
    {NoChannel, ChannelAnswer("0", <<>>, None)}
    \cup {ChannelAnswer("5", n, Some(Url("10.0.0.9", ""))) : n \in {NamesOther, NamesTuned}}
    \cup {ChannelAnswer("5", NamesTuned, None)}

\* What the control protocol gets from one tuner: None when the tuner is
\* unreachable, else its status and its channel answers.
TunerAnswers ==
    {None}
    \cup {Some([status |-> st, chan |-> NoChannel]) : st \in {StatusIdle, StatusNoSymbol}}
    \cup {Some([status |-> StatusLocked, chan |-> c]) : c \in ChannelAnswers}

\* HDHomeRunProtocol.get_tuner_status: the parsed reply, None when unreachable
get_tuner_status(tuner_idx, answer) ==
    IF answer = None THEN None
    ELSE Some([name |-> <<"", TunerName(tuner_idx), "status">>,
               value |-> answer[1].status])

MatchingNames(chan) ==
    {i \in 1..Len(chan.names) : chan.names[i].id = chan.vchannel}
FirstMatch(chan) ==
    chan.names[CHOOSE i \in MatchingNames(chan) : \A j \in MatchingNames(chan) : i <= j]

\* discover.py lines 612-647: the exception the channel lookup ends in
ChannelLookupRaises(chan) ==
    IF ParseInt(chan.vchannel) = None THEN "ValueError"
    ELSE IF ParseInt(chan.vchannel)[1] = 0 THEN "none"
    ELSE IF MatchingNames(chan) # {} /\ Len(FirstMatch(chan).words) # 2 THEN "ValueError"
    ELSE IF chan.target = None THEN "AttributeError"
    ELSE "none"

\* discover.py lines 612-647: the record with the channel's fields added
ChannelLookup(info, chan) ==
    IF ParseInt(chan.vchannel)[1] = 0 THEN info
    ELSE LET named == IF MatchingNames(chan) = {} THEN info
                      ELSE info @@ ("VctNumber" :> FirstMatch(chan).words[1])
                                @@ ("VctName" :> FirstMatch(chan).words[2])
         IN  named @@ ("TargetIP" :> urlparse_hostname(chan.target[1]))

\* if tuner is None: self._is_online = False  (else True)
OnlineAfterTuner(reply) == reply # None

\* discover.py lines 584-651: the loop over the tuners' replies.  Its result:
\* is_online, the records collected, and the exception that ended it.
RECURSIVE RefreshTcpLoop(_, _, _, _)
RefreshTcpLoop(answers, i, online, status) ==
    IF i > Len(answers)
    THEN [online |-> online, status |-> status, exc |-> "none"]
    ELSE LET reply == get_tuner_status(i - 1, answers[i])
         IN  IF reply = None
             THEN RefreshTcpLoop(answers, i + 1, OnlineAfterTuner(reply), status)
             ELSE LET info == ParseStatus(reply[1])
                      chan == answers[i][1].chan
                  IN  IF "SymbolQualityPercent" \notin DOMAIN info
                      THEN RefreshTcpLoop(answers, i + 1, OnlineAfterTuner(reply),
                                          Append(status, info))
                      ELSE IF ChannelLookupRaises(chan) # "none"
                      THEN [online |-> OnlineAfterTuner(reply), status |-> status,
                            exc |-> ChannelLookupRaises(chan)]
                      ELSE RefreshTcpLoop(answers, i + 1, OnlineAfterTuner(reply),
                                          Append(status, ChannelLookup(info, chan)))

\* lines 653-654: if tuner_status:
TcpStores(tuner_status) == tuner_status # <<>>

(***************************************************************************)
(* HDHomeRunDevice (discover.py): the tuner refresh.                       *)
(***************************************************************************)
\* a status.json body: the list of the tuners' records
HttpTunerRecord ==
    ("Resource" :> "tuner0") @@ ("SignalStrengthPercent" :> 80) @@
    ("SignalQualityPercent" :> 90) @@ ("SymbolQualityPercent" :> 95)
StatusBodies == {<<>>, <<HttpTunerRecord>>}

\* the outcomes of the GET other than a 2xx response: asyncio.TimeoutError,
\* aiohttp.ClientResponseError, and any other exception
GetFailures == {"timeout", "http_error", "connection_error"}

\* a refresh that forgets the status whenever the GET fails
RefreshHttpForgetful(d, outcome, body) ==
    CASE outcome = "ok" -> [d EXCEPT !.is_online = TRUE, !.tuner_status = Some(body)]
      [] outcome = "ok_invalid" -> [d EXCEPT !.is_online = TRUE]
      [] outcome = "timeout" -> [d EXCEPT !.is_online = FALSE, !.tuner_status = None]
      [] OTHER -> [d EXCEPT !.tuner_status = None]

\* a refresh that marks the device offline on every failure of the GET
RefreshHttpOfflineOnAnyFailure(d, outcome, body) ==
    CASE outcome = "ok" -> [d EXCEPT !.is_online = TRUE, !.tuner_status = Some(body)]
      [] outcome = "ok_invalid" -> [d EXCEPT !.is_online = TRUE]
      [] OTHER -> [d EXCEPT !.is_online = FALSE]

\* _async_tuner_refresh_http, lines 554-567: the device after the GET
RefreshHttp(d, outcome, body) ==
    CASE outcome = "ok" -> [d EXCEPT !.is_online = TRUE, !.tuner_status = Some(body)]
      [] outcome = "ok_invalid" -> [d EXCEPT !.is_online = TRUE]
      [] outcome = "timeout" -> [d EXCEPT !.is_online = FALSE]
      [] OTHER -> d

\* the devices Discover.discover hands to a caller: found over HTTP or enriched
\* (a discover_url, method HTTP), or found over UDP only
KnownDevice(host, method, count, lineup) ==
    [HDHomeRunDevice(host) EXCEPT
        !.device_id = Some("1234ABCD"),
        !.discovery_method = Some(method),
        !.discover_url = IF method = "HTTP" THEN Some(Url(host, "/discover.json")) ELSE None,
        !.tuner_count = count,
        !.lineup_url = lineup]

LineupUrls(host) == {None, Some(Url(host, "/lineup.json"))}

HeldDevices ==
    {KnownDevice("10.0.0.5", "HTTP", c, None) : c \in {None, Some(MaxTuners)}}
    \cup {KnownDevice("10.0.0.5", "UDP", c, None) :
              c \in {None} \cup {Some(n) : n \in 1..MaxTuners}}

InitRefresh ==
    /\ dev \in HeldDevices
    /\ ret = None
    /\ rpc = "idle"
    /\ last = NoCall

\* async_tuner_refresh with a discover_url: _async_tuner_refresh_http
TunerRefreshHttp ==
    /\ scenario = "refresh"
    /\ dev.discover_url # None
    /\ \/ \E body \in StatusBodies :
             /\ dev' = RefreshHttp(dev, "ok", body)
             /\ last' = [op |-> "tuner_refresh_http",
                         io |-> <<IF body = <<>> THEN "ok_empty" ELSE "ok">>,
                         exc |-> "none"]
       \/ \E failure \in GetFailures :
             /\ dev' = RefreshHttp(dev, failure, <<>>)
             /\ last' = [op |-> "tuner_refresh_http", io |-> <<failure>>, exc |-> "none"]
       \/ \* a 2xx response whose body is not JSON: resp.json() raises at line 566
          /\ dev' = RefreshHttp(dev, "ok_invalid", <<>>)
          /\ last' = [op |-> "tuner_refresh_http", io |-> <<"ok_invalid">>,
                      exc |-> "JSONDecodeError"]
    /\ UNCHANGED <<scenario, windowVars, callVars, discoverVars, gatherVars, ret, rpc>>

\* async_tuner_refresh without a discover_url: _async_tuner_refresh_tcp.
\* range(self.tuner_count) raises TypeError when tuner_count is None.
TunerRefreshTcp ==
    /\ scenario = "refresh"
    /\ dev.discover_url = None
    /\ IF dev.tuner_count = None
       THEN /\ last' = [op |-> "tuner_refresh_tcp", io |-> <<>>, exc |-> "TypeError"]
            /\ UNCHANGED dev
       ELSE \E answers \in [1..dev.tuner_count[1] -> TunerAnswers] :
              \E r \in {RefreshTcpLoop(answers, 1, dev.is_online, <<>>)} :
                  /\ dev' = [dev EXCEPT
                               !.is_online = r.online,
                               !.tuner_status =
                                   IF r.exc = "none" /\ TcpStores(r.status)
                                   THEN Some(r.status) ELSE @]
                  /\ last' = [op |-> "tuner_refresh_tcp",
                              io |-> [i \in 1..Len(answers) |->
                                         IF answers[i] = None THEN "unreachable"
                                         ELSE "reply"],
                              exc |-> r.exc]
    /\ UNCHANGED <<scenario, windowVars, callVars, discoverVars, gatherVars, ret, rpc>>

(***************************************************************************)
(* HDHomeRunDevice.async_rediscover (discover.py), in two steps:           *)
(* Discover.rediscover with the control-protocol details, then the lineup. *)
(* No code sets the attribute _discovery_mode that line 145 reads, so the  *)
(* target is always looked up in a full Discover().discover().             *)
(***************************************************************************)
MaxFound == 2     \* devices a full discovery returns to Discover.rediscover

FoundDevices ==
    UNION {{KnownDevice(h, m, None, l) : m \in {"HTTP", "UDP"}, l \in LineupUrls(h)} :
              h \in Hosts}

\* lines 147-150: the first device found at the target's address
MatchesOf(found, target) == {i \in 1..Len(found) : found[i].host = target.host}
FirstAtAddress(found, target) ==
    found[CHOOSE i \in MatchesOf(found, target) :
             \A j \in MatchesOf(found, target) : i <= j]

\* lines 712-733: the firmware details from the control protocol
WithFirmwareDetails(d) ==
    [d EXCEPT !.sys_version = Some("20230501"), !.sys_model = Some("hdhomerun4_atsc"),
              !.sys_hwmodel = Some("HDHR4-2US")]

\* a lineup fetch that leaves the device as it is on a timeout
AfterLineupIgnoresTimeout(d, outcome, body) ==
    CASE outcome = "ok" -> [d EXCEPT !.channels = Some(body)]
      [] outcome = "connection_error" -> [d EXCEPT !.is_online = FALSE]
      [] OTHER -> d

\* lines 741-754: the device after the lineup GET
AfterLineup(d, outcome, body) ==
    CASE outcome = "ok" -> [d EXCEPT !.channels = Some(body)]
      [] outcome \in {"timeout", "connection_error"} -> [d EXCEPT !.is_online = FALSE]
      [] OTHER -> d

LineupBodies == {<<>>, << [GuideNumber |-> "5.1", GuideName |-> "KPIX"] >>}

InitRediscover ==
    /\ dev \in {d \in HeldDevices : d.tuner_count = None}
    /\ ret = None
    /\ rpc = "idle"
    /\ last = NoCall

\* Discover.rediscover finds no device at the target's address: line 159
\* reads the local device, which was never bound
RediscoverFindsNone ==
    /\ scenario = "rediscover" /\ rpc = "idle"
    /\ \E found \in SeqUpTo(FoundDevices, MaxFound) :
           /\ MatchesOf(found, dev) = {}
           /\ last' = [op |-> "async_rediscover",
                       io |-> <<IF found = <<>> THEN "ok_empty" ELSE "ok">>,
                       exc |-> "UnboundLocalError"]
    /\ UNCHANGED <<scenario, windowVars, callVars, discoverVars, gatherVars, dev, ret, rpc>>

\* the full discovery itself is left by an exception (EnrichAnswered)
RediscoverDiscoveryRaises ==
    /\ scenario = "rediscover" /\ rpc = "idle"
    /\ last' = [op |-> "async_rediscover", io |-> <<"empty">>, exc |-> "IndexError"]
    /\ UNCHANGED <<scenario, windowVars, callVars, discoverVars, gatherVars, dev, ret, rpc>>

\* Discover.rediscover finds the target; lines 712-733 ask the control
\* protocol when the device was not found over HTTP
RediscoverFinds ==
    /\ scenario = "rediscover" /\ rpc = "idle"
    /\ \E found \in SeqUpTo(FoundDevices, MaxFound), reachable \in BOOLEAN :
           /\ MatchesOf(found, dev) # {}
           /\ LET device == [FirstAtAddress(found, dev) EXCEPT !.is_online = TRUE]
                   asked == device.discovery_method # Some("HTTP")
                   detailed == IF asked THEN WithFirmwareDetails(device) ELSE device
               IN  IF asked /\ ~reachable
                   THEN /\ ret' = Some(device)
                        /\ rpc' = "idle"
                        /\ last' = [op |-> "async_rediscover",
                                    io |-> <<"ok", "unreachable">>,
                                    exc |-> "AttributeError"]
                   ELSE /\ ret' = Some(detailed)
                        /\ rpc' = IF detailed.lineup_url # None THEN "lineup" ELSE "idle"
                        /\ last' = [op |-> "async_rediscover",
                                    io |-> IF asked THEN <<"ok", "reply">> ELSE <<"ok">>,
                                    exc |-> "none"]
    /\ UNCHANGED <<scenario, windowVars, callVars, discoverVars, gatherVars, dev>>

\* lines 735-757: the lineup GET and the return
RediscoverLineup ==
    /\ scenario = "rediscover" /\ rpc = "lineup"
    /\ \/ \E body \in LineupBodies :
             /\ ret' = Some(AfterLineup(ret[1], "ok", body))
             /\ last' = [last EXCEPT
                           !.io = Append(@, IF body = <<>> THEN "ok_empty" ELSE "ok")]
       \/ \E failure \in GetFailures :
             /\ ret' = Some(AfterLineup(ret[1], failure, <<>>))
             /\ last' = [last EXCEPT
                           !.io = Append(@, failure),
                           !.exc = IF failure = "http_error"
                                   THEN "ClientResponseError" ELSE "none"]
    /\ rpc' = "idle"
    /\ UNCHANGED <<scenario, windowVars, callVars, discoverVars, gatherVars, dev>>

(***************************************************************************)
(* HDHomeRunDevice.async_restart (discover.py 759-763, device.py 301-304): *)
(* one await of the control protocol's restart, with no handler around it. *)
(***************************************************************************)
\* what sending the restart command does: it is sent, or it raises
RestartOutcomes == {"sent", "TimeoutError", "ConnectionRefusedError", "OSError"}

\* a restart that swallows a timeout and marks the device offline instead
RestartHandlingTimeout(d, outcome) ==
    IF outcome = "TimeoutError"
    THEN [device |-> [d EXCEPT !.is_online = FALSE], exc |-> "none"]
    ELSE [device |-> d, exc |-> IF outcome = "sent" THEN "none" ELSE outcome]

\* the device after the await, and the exception that leaves async_restart
Restart(d, outcome) ==
    [device |-> d, exc |-> IF outcome = "sent" THEN "none" ELSE outcome]

AsyncRestart ==
    /\ scenario = "rediscover" /\ rpc = "idle"
    /\ \E outcome \in RestartOutcomes :
          /\ dev' = Restart(dev, outcome).device
          /\ last' = [op |-> "async_restart", io |-> <<outcome>>,
                      exc |-> Restart(dev, outcome).exc]
    /\ UNCHANGED <<scenario, windowVars, callVars, discoverVars, gatherVars, ret, rpc>>

(***************************************************************************)
(* HDHomeRunDevice (device.py): a device found over UDP, its details and   *)
(* its tuner status.  The device keeps the reply that announced it in      *)
(* _processed_datagram.                                                    *)
(***************************************************************************)
Device(host) ==
    [host |-> host, discovery_method |-> None, processed_datagram |-> None,
     base_url |-> None, device_auth_str |-> None, device_id |-> None,
     device_type |-> None, lineup_url |-> None, sys_hwmodel |-> None,
     sys_model |-> None, sys_version |-> None, tuner_count |-> None,
     tuner_status |-> None]

\* the replies a device sends: the same device_id each time
GatherReplies ==
    {Datagram("10.0.0.5", "DISCOVER_RPY", Some(4660), base, count) :
        base \in {None, Some(""), Some("udp-base")},
        count \in {None, Some(0), Some(MaxTuners)}}

\* the device as a UDP discovery created it from its reply: the fields of
\* the truthy decoded tags, and the reply itself
DiscoveredOverUdp(dgram) ==
    LET decoded == DeviceFromDatagram(dgram)
        fresh == Device(dgram.addr)
    IN  [f \in DOMAIN fresh |->
            CASE f = "discovery_method" -> Some("UDP")
              [] f = "processed_datagram" -> Some(dgram)
              [] f = "host" -> fresh[f]
              [] OTHER -> decoded[f]]

\* get_from_datagram: the tag of the device's own reply, decoded; a tag the
\* reply lacks reads as b"", which decodes to "" (the integer tags raise)
get_from_datagram(d, tag) ==
    LET raw == d.processed_datagram[1].data[tag]
    IN  IF raw = None THEN "" ELSE DecodeTag(tag, raw[1])

\* struct.unpack of b"" raises struct.error
GetFromDatagramRaises(d, tag) ==
    /\ tag \in IntTags \cup {"DEVICE_ID"}
    /\ d.processed_datagram[1].data[tag] = None

\* lines 136-149: every tag of the new reply is assigned
GatherTakes(tag, value) == TRUE

\* the tags a reply carries
TagsOf(dgram) == {t \in DOMAIN TAG_PROPERTY_MAP : dgram.data[t] # None}

\* lines 135-149: the fields after the loop has assigned the given tags
GatherAssign(d, tags) ==
    [f \in DOMAIN d |->
        IF \E t \in tags :
               TAG_PROPERTY_MAP[t] = f /\ GatherTakes(t, get_from_datagram(d, t))
        THEN Some(get_from_datagram(d, CHOOSE t \in tags : TAG_PROPERTY_MAP[t] = f))
        ELSE d[f]]

GatherMerge(d, updated) == GatherAssign(d, TagsOf(updated))

\* lines 152-169: the three variables of the control protocol
GatherFirmwareDetails(d) ==
    [d EXCEPT !.sys_version = Some("20230501"), !.sys_model = Some("hdhomerun4_atsc"),
              !.sys_hwmodel = Some("HDHR4-2US")]

\* _async_get_channel_details_udp: the channel's fields
get_channel_details_udp(chan) ==
    LET named == IF MatchingNames(chan) = {} THEN <<>>
                 ELSE ("VctNumber" :> FirstMatch(chan).words[1])
                      @@ ("VctName" :> FirstMatch(chan).words[2])
    IN  IF chan.target = None THEN named
        ELSE named @@ ("TargetIP" :> urlparse_hostname(chan.target[1]))

\* _async_get_tuner_status_udp, lines 233-267: the records collected
RECURSIVE StatusUdpLoop(_, _, _)
StatusUdpLoop(answers, i, status) ==
    IF i > Len(answers) THEN status
    ELSE LET reply == get_tuner_status(i - 1, answers[i])
         IN  IF reply = None THEN StatusUdpLoop(answers, i + 1, status)
             ELSE LET info == ParseStatus(reply[1])
                  IN  StatusUdpLoop(answers, i + 1, Append(status,
                          IF "SymbolQualityPercent" \in DOMAIN info
                          THEN get_channel_details_udp(answers[i][1].chan) @@ info
                          ELSE info))

\* line 269: self._tuner_status = tuner_status or None
StatusOrNone(tuner_status) == IF tuner_status = <<>> THEN None ELSE Some(tuner_status)

InitGather ==
    /\ gdev \in {Some(DiscoveredOverUdp(d)) : d \in GatherReplies}
    /\ glast = NoCall

\* the devices whose tuner status is asked for: one per tuner_count
InitStatus ==
    /\ gdev \in {Some(DiscoveredOverUdp(d)) :
                    d \in {g \in GatherReplies : g.data["BASE_URL"] = Some("udp-base")}}
    /\ glast = NoCall

\* async_gather_details of a device found over UDP: _async_gather_details_udp
GatherDetailsUdp ==
    /\ scenario = "gather"
    /\ \E updated \in {<<>>} \cup {<<d>> : d \in GatherReplies} :
          IF updated # <<>> /\ \E t \in TagsOf(updated[1]) : GetFromDatagramRaises(gdev[1], t)
          THEN \* the loop stops at the first tag that raises: the tags before
               \* it, in the order the reply carries them, are assigned
               \E done \in SUBSET {t \in TagsOf(updated[1]) :
                                       ~GetFromDatagramRaises(gdev[1], t)} :
                  /\ glast' = [op |-> "gather_details_udp", io |-> <<"reply">>,
                               exc |-> "struct.error"]
                  /\ gdev' = Some(GatherAssign(gdev[1], done))
          ELSE /\ glast' = [op |-> "gather_details_udp",
                            io |-> <<IF updated = <<>> THEN "ok_empty" ELSE "reply">>,
                            exc |-> "none"]
               /\ gdev' = Some(GatherFirmwareDetails(
                                   IF updated = <<>> THEN gdev[1]
                                   ELSE GatherMerge(gdev[1], updated[1])))
    /\ UNCHANGED <<scenario, windowVars, callVars, discoverVars, deviceVars>>

\* async_refresh_tuner_status of a device found over UDP
GetTunerStatusUdp ==
    /\ scenario = "status"
    /\ IF gdev[1].tuner_count = None
       THEN /\ glast' = [op |-> "get_tuner_status_udp", io |-> <<>>, exc |-> "TypeError"]
            /\ UNCHANGED gdev
       ELSE \E answers \in [1..gdev[1].tuner_count[1] -> TunerAnswers] :
              /\ gdev' = Some([gdev[1] EXCEPT
                                 !.tuner_status = StatusOrNone(StatusUdpLoop(answers, 1, <<>>))])
              /\ glast' = [op |-> "get_tuner_status_udp",
                           io |-> [i \in 1..Len(answers) |->
                                      IF answers[i] = None THEN "unreachable"
                                      ELSE "reply"],
                           exc |-> "none"]
    /\ UNCHANGED <<scenario, windowVars, callVars, discoverVars, deviceVars>>

NextDevice ==
    \/ TunerRefreshHttp
    \/ TunerRefreshTcp
    \/ RediscoverFindsNone
    \/ RediscoverDiscoveryRaises
    \/ RediscoverFinds
    \/ RediscoverLineup
    \/ AsyncRestart

InitDevice ==
    /\ DiscoverUnused
    /\ GatherUnused
    /\ WindowUnused
    /\ CallUnused
    /\ \/ scenario = "refresh" /\ InitRefresh
       \/ scenario = "rediscover" /\ InitRediscover

\* the operations of the HDHomeRunDevice of discover.py
SpecDevice == InitDevice /\ [][NextDevice]_vars

NextGather ==
    \/ GatherDetailsUdp
    \/ GetTunerStatusUdp

InitGatherDevice ==
    /\ DiscoverUnused
    /\ DeviceUnused
    /\ WindowUnused
    /\ CallUnused
    /\ \/ scenario = "gather" /\ InitGather
       \/ scenario = "status" /\ InitStatus

\* the operations of the HDHomeRunDevice of device.py
SpecGather == InitGatherDevice /\ [][NextGather]_vars

(***************************************************************************)
(* DiscoverUDP.discover as a process: it opens a datagram endpoint, sleeps *)
(* for the timeout while the event loop hands every datagram to            *)
(* _DiscoverProtocol.datagram_received, closes the transport and returns   *)
(* the devices collected.  Scenario "window".                              *)
(***************************************************************************)
\* the timeout of the window, in ticks of the clock
WindowTicks == 2

\* a datagram of another packet type that reaches the discovery socket
OtherDatagrams ==
    {Datagram(a, "GETSET_RPY", Some(id), None, None) :
        a \in UdpHosts, id \in UdpRawIds}

WindowDatagrams == DiscoverReplies \cup OtherDatagrams

\* the header check of datagram_received
DatagramRaises(dgram) == dgram.header # "DISCOVER_RPY"

\* datagram_received without its header check
datagram_received_unchecked(devs, dgram) ==
    Append(devs, DeviceFromDatagram(dgram))

\* datagram_received: discovered_devices after one datagram.  The ValueError
\* of a wrong header is raised before the append; the event loop reports it
\* and goes on reading.
datagram_received(devs, dgram) ==
    IF DatagramRaises(dgram) THEN devs
    ELSE Append(devs, DeviceFromDatagram(dgram))

\* asyncio.sleep(timeout) is over once the first reply is in
SleepOverOnReply(ticks, devs) == ticks = WindowTicks \/ devs # <<>>

\* asyncio.sleep(timeout) is over
SleepOver(ticks, devs) == ticks = WindowTicks

\* the transport after the wait, closed on the normal path only
AfterWaitOnReturn(how) == IF how = "returned" THEN "closed" ELSE "open"

\* the transport after the try/finally around the wait
AfterWait(how) == "closed"

\* what do_discover builds: a discovery request for every tuner, of any id
DiscoverRequest ==
    [type |-> "DISCOVER_REQ",
     payload |-> << <<"DEVICE_TYPE", "TUNER">>, <<"DEVICE_ID", "WILDCARD">> >>]

\* a do_discover that sends its packet twice
do_discover_twice(packets) == Append(Append(packets, DiscoverRequest), DiscoverRequest)

\* do_discover: self._transport.sendto(req, self._target)
do_discover(packets) == Append(packets, DiscoverRequest)

\* connection_made: the socket is set up, then self.do_discover()
connection_made(packets) == do_discover(packets)

InitWindow ==
    /\ scenario = "window"
    /\ wpc = "start"
    /\ clock = 0
    /\ transport = "none"
    /\ sent = <<>>
    /\ heard = <<>>
    /\ discovered_devices = <<>>
    /\ wresult = <<>>
    /\ wexc = "none"

\* loop.create_datagram_endpoint gives the transport and the protocol, and
\* calls connection_made of the protocol before it returns
CreateEndpoint ==
    /\ scenario = "window"
    /\ wpc = "start"
    /\ wpc' = "waiting"
    /\ transport' = "open"
    /\ sent' = connection_made(sent)
    /\ UNCHANGED <<scenario, discoverVars, deviceVars, gatherVars, callVars,
                   clock, heard, discovered_devices, wresult, wexc>>

\* loop.create_datagram_endpoint raises: there is no transport
CreateEndpointFails ==
    /\ scenario = "window"
    /\ wpc = "start"
    /\ wpc' = "raised"
    /\ wexc' = "OSError"
    /\ UNCHANGED <<scenario, discoverVars, deviceVars, gatherVars, callVars, sent,
                   clock, transport, heard, discovered_devices, wresult>>

\* the event loop reads a datagram while discover sleeps
DatagramReceived ==
    /\ scenario = "window"
    /\ wpc = "waiting"
    /\ transport = "open"
    /\ Len(heard) < MaxUdp
    /\ \E dgram \in WindowDatagrams :
          /\ heard' = Append(heard, dgram)
          /\ discovered_devices' = datagram_received(discovered_devices, dgram)
    /\ UNCHANGED <<scenario, discoverVars, deviceVars, gatherVars, callVars, sent,
                   wpc, clock, transport, wresult, wexc>>

\* time passes during the sleep
Tick ==
    /\ scenario = "window"
    /\ wpc = "waiting"
    /\ clock < WindowTicks
    /\ clock' = clock + 1
    /\ UNCHANGED <<scenario, discoverVars, deviceVars, gatherVars, callVars, sent,
                   wpc, transport, heard, discovered_devices, wresult, wexc>>

\* the task is cancelled during the sleep: finally closes the transport and
\* the CancelledError goes on
WindowCancelled ==
    /\ scenario = "window"
    /\ wpc = "waiting"
    /\ ~SleepOver(clock, discovered_devices)
    /\ transport' = AfterWait("raised")
    /\ wpc' = "raised"
    /\ wexc' = "CancelledError"
    /\ UNCHANGED <<scenario, discoverVars, deviceVars, gatherVars, callVars, sent,
                   clock, heard, discovered_devices, wresult>>

\* the sleep is over: finally closes the transport, the devices are returned
WindowReturn ==
    /\ scenario = "window"
    /\ wpc = "waiting"
    /\ SleepOver(clock, discovered_devices)
    /\ transport' = AfterWait("returned")
    /\ wresult' = discovered_devices
    /\ wpc' = "returned"
    /\ UNCHANGED <<scenario, discoverVars, deviceVars, gatherVars, callVars, sent,
                   clock, heard, discovered_devices, wexc>>

NextWindow ==
    \/ CreateEndpoint
    \/ CreateEndpointFails
    \/ DatagramReceived
    \/ Tick
    \/ WindowCancelled
    \/ WindowReturn

InitWindowCall ==
    /\ DiscoverUnused
    /\ DeviceUnused
    /\ GatherUnused
    /\ CallUnused
    /\ InitWindow

SpecWindow == InitWindowCall /\ [][NextWindow]_vars

(***************************************************************************)
(* The decoding of a tuner's status value, applied to status strings of    *)
(* the control protocol: "ch=.. lock=.. ss=.. snq=.. seq=.. bps=.. pps=..",*)
(* every tag once.  Scenario "parse".                                      *)
(***************************************************************************)
\* the values a tag of a status string takes here
StatusValues == {"0", "00", "5", "80", "-5", "none"}

StatusStrings ==
    {<< <<"ch", "8vsb:183000000">>, <<"lock", "8vsb">>, <<"ss", ss>>, <<"snq", snq>>,
        <<"seq", seq>>, <<"bps", "80">>, <<"pps", "0">> >> :
        ss \in StatusValues, snq \in StatusValues, seq \in StatusValues}

InitParse ==
    /\ scenario = "parse"
    /\ arg = None
    /\ out = None
    /\ returned = NothingReturned

\* the body of the tuner loop for one reply
DecodeStatus ==
    /\ scenario = "parse"
    /\ \E tuner_idx \in 0..(MaxTuners - 1), status \in StatusStrings :
          LET reply == get_tuner_status(tuner_idx, Some([status |-> status, chan |-> NoChannel]))[1]
          IN  /\ arg' = Some(reply)
              /\ out' = Some(ParseStatus(reply))
    /\ UNCHANGED <<scenario, discoverVars, deviceVars, gatherVars, windowVars, returned>>

NextParse == DecodeStatus

InitParseCall ==
    /\ DiscoverUnused
    /\ DeviceUnused
    /\ GatherUnused
    /\ WindowUnused
    /\ InitParse

SpecParse == InitParseCall /\ [][NextParse]_vars

(***************************************************************************)
(* The two merges of a discovery, applied to a device again with the same  *)
(* source: DiscoverHTTP.rediscover called on a device of the map with the  *)
(* same response, and the UDP merge loop of Discover.discover run on the   *)
(* map with the same devices.  Scenario "merge".                           *)
(***************************************************************************)
\* how often the source is merged
MergeTimes == 2

\* the map after the HTTP branch
HttpMaps ==
    {<<>>} \cup {InsertHttp(<<>>, DiscoverHTTP_discover(DirectoryHost, body)) :
                    body \in DirectoryBodies}

\* the devices of one UDP window
\* one device answering the broadcast on two interfaces, in either order
RepeatedReplies ==
    {<<Datagram(a, "DISCOVER_RPY", Some(id), Some("udp-base"), None),
       Datagram(b, "DISCOVER_RPY", Some(id), Some("udp-base-2"), None)>> :
        id \in UdpRawIds, a \in Hosts, b \in Hosts}
    \cup {<<Datagram(b, "DISCOVER_RPY", Some(id), Some("udp-base-2"), None),
            Datagram(a, "DISCOVER_RPY", Some(id), Some("udp-base"), None)>> :
             id \in UdpRawIds, a \in Hosts, b \in Hosts}

UdpLists ==
    {DiscoverUDP_discover(dgrams) :
        dgrams \in SeqUpTo(DiscoverReplies, MaxUdp) \cup RepeatedReplies}

\* the devices the enrichment loop calls rediscover on
EnrichTargets ==
    UNION {{MergeUdp(map, found)[i].dev : i \in 1..Len(MergeUdp(map, found))} :
              map \in HttpMaps, found \in UdpLists}

\* what the GET of rediscover gives: a failure, or the body of a 2xx response
RediscoverSources ==
    {[failure |-> Some(f), body |-> None] : f \in HttpFailures}
    \cup {[failure |-> None, body |-> Some(b)] : b \in DeviceBodies}

InitMerge ==
    /\ scenario = "merge"
    /\ arg \in {Some([kind |-> "rediscover", target |-> t, source |-> s]) :
                   t \in EnrichTargets, s \in RediscoverSources}
               \cup {Some([kind |-> "udp", target |-> map, source |-> found]) :
                        map \in HttpMaps, found \in UdpLists}
    /\ out = <<>>
    /\ returned = NothingReturned

\* what the next merge works on: the target as the merges so far left it
MergeTarget == IF out = <<>> THEN arg[1].target ELSE out[Len(out)]

\* DiscoverHTTP.rediscover(target), the GET answered as the source says
RediscoverCall ==
    /\ scenario = "merge"
    /\ arg[1].kind = "rediscover"
    /\ Len(out) < MergeTimes
    /\ out = <<>> \/ returned.ref # None
    /\ LET target == MergeTarget
           source == arg[1].source
       IN  IF source.failure # None
           THEN /\ out' = Append(out, target)
                /\ returned' = [ref |-> RediscoverReturns(Some("target"), None),
                                updated |-> None]
           ELSE IF RediscoverRaises(target, source.body[1])
           THEN /\ out' = Append(out, RediscoverMark(target))
                /\ returned' = NothingReturned
           ELSE /\ out' = Append(out, RediscoverMerge(target, source.body[1]))
                /\ returned' = [ref |-> RediscoverReturns(Some("target"), Some("updated")),
                                updated |-> Some(RediscoverUpdated(target, source.body[1]))]
    /\ UNCHANGED <<scenario, discoverVars, deviceVars, gatherVars, windowVars, arg>>

\* lines 104-117 of Discover.discover, run on the map with the devices of the
\* window
MergeUdpCall ==
    /\ scenario = "merge"
    /\ arg[1].kind = "udp"
    /\ Len(out) < MergeTimes
    /\ out' = Append(out, MergeUdp(MergeTarget, arg[1].source))
    /\ UNCHANGED <<scenario, discoverVars, deviceVars, gatherVars, windowVars, arg, returned>>

NextMerge ==
    \/ RediscoverCall
    \/ MergeUdpCall

InitMergeCall ==
    /\ DiscoverUnused
    /\ DeviceUnused
    /\ GatherUnused
    /\ WindowUnused
    /\ InitMerge

SpecMerge == InitMergeCall /\ [][NextMerge]_vars

(***************************************************************************)
(* The two loops over the tuners' replies, _async_tuner_refresh_tcp of     *)
(* discover.py and _async_get_tuner_status_udp of device.py, applied to    *)
(* the answers of the tuners of one device.  Scenario "tuners".            *)
(***************************************************************************)
\* what a tuner with a symbol lock answers to the channel queries
LockedChannelAnswers ==
    {ChannelAnswer(v, n, t) :
        v \in {"none", "0", "5"}, n \in {NamesOther, NamesTuned},
        t \in {None, Some(Url("10.0.0.9", ""))}}

LoopAnswers ==
    {None}
    \cup {Some([status |-> st, chan |-> NoChannel]) : st \in {StatusIdle, StatusNoSymbol}}
    \cup {Some([status |-> StatusLocked, chan |-> c]) : c \in LockedChannelAnswers}

InitTuners ==
    /\ scenario = "tuners"
    /\ arg \in {Some(answers) : answers \in SeqUpTo(LoopAnswers, MaxTuners)}
    /\ out = None
    /\ returned = NothingReturned

\* _async_tuner_refresh_tcp of a device that was online, with no status yet
RefreshTcpTuners ==
    /\ scenario = "tuners"
    /\ out = None
    /\ out' = Some([fn |-> "tuner_refresh_tcp"]
                   @@ RefreshTcpLoop(arg[1], 1, TRUE, <<>>))
    /\ UNCHANGED <<scenario, discoverVars, deviceVars, gatherVars, windowVars,
                   arg, returned>>

\* _async_get_tuner_status_udp; its channel details have no exit by exception
\* for these answers
StatusUdpTuners ==
    /\ scenario = "tuners"
    /\ out = None
    /\ out' = Some([fn |-> "get_tuner_status_udp", online |-> TRUE,
                    status |-> StatusUdpLoop(arg[1], 1, <<>>), exc |-> "none"])
    /\ UNCHANGED <<scenario, discoverVars, deviceVars, gatherVars, windowVars,
                   arg, returned>>

NextTuners ==
    \/ RefreshTcpTuners
    \/ StatusUdpTuners

InitTunersCall ==
    /\ DiscoverUnused
    /\ DeviceUnused
    /\ GatherUnused
    /\ WindowUnused
    /\ InitTuners

SpecTuners == InitTunersCall /\ [][NextTuners]_vars

(***************************************************************************)
(* DiscoverHTTP.discover as one call: the GET of a discover URL and the    *)
(* parsing of what it answers.  Scenario "http".                           *)
(***************************************************************************)
\* the bodies of a 2xx response: arrays of objects, single objects, {}
HttpBodies ==
    {JsonArray(s) : s \in SeqUpTo(DirectoryObjects \cup DeviceObjects, MaxHttp + 1)}
    \cup {JsonSingle(<<o>>) : o \in DirectoryObjects \cup DeviceObjects}
    \cup {JsonSingle(<<>>)}

\* what the GET gives: "ok" with a JSON body, "ok_invalid" (a 2xx response
\* that is not JSON), or a failure
HttpAnswers ==
    {[outcome |-> "ok", body |-> b] : b \in HttpBodies}
    \cup {[outcome |-> o, body |-> JsonArray(<<>>)] : o \in HttpFailures \cup {"ok_invalid"}}

\* a GET whose exception reaches the caller as raised
GetRaisesUnwrapped(outcome) ==
    CASE outcome = "timeout" -> "TimeoutError"
      [] outcome = "connection_error" -> "ClientConnectionError"
      [] outcome = "http_error" -> "ClientResponseError"
      [] OTHER -> "none"

\* lines 220-230: except Exception ... raise
\* HDHomeRunHTTPDiscoveryNotAvailableError from None
GetRaises(outcome) ==
    IF outcome \in HttpFailures THEN "HDHomeRunHTTPDiscoveryNotAvailableError"
    ELSE "none"

InitHttp ==
    /\ scenario = "http"
    /\ arg \in {Some([host |-> h, outcome |-> a.outcome, body |-> a.body]) :
                   h \in Hosts, a \in HttpAnswers}
    /\ out = None
    /\ returned = NothingReturned

\* DiscoverHTTP.discover(discover_url), lines 213-256
DiscoverHttpCall ==
    /\ scenario = "http"
    /\ out = None
    /\ out' = Some(IF GetRaises(arg[1].outcome) # "none"
                   THEN [exc |-> GetRaises(arg[1].outcome), devices |-> None]
                   ELSE IF arg[1].outcome = "ok_invalid"
                   THEN [exc |-> "JSONDecodeError", devices |-> None]
                   ELSE [exc |-> "none",
                         devices |-> Some(DiscoverHTTP_discover(arg[1].host, arg[1].body))])
    /\ UNCHANGED <<scenario, discoverVars, deviceVars, gatherVars, windowVars,
                   arg, returned>>

NextHttp == DiscoverHttpCall

InitHttpCall ==
    /\ DiscoverUnused
    /\ DeviceUnused
    /\ GatherUnused
    /\ WindowUnused
    /\ InitHttp

SpecHttp == InitHttpCall /\ [][NextHttp]_vars

(***************************************************************************)
(* Discover.discover with every await as a step of its own: a request is   *)
(* issued, the coroutine is suspended, and it goes on with what the call   *)
(* returned.  Scenario "phases".                                           *)
(***************************************************************************)
\* what the directory answers
PhaseBodies == {JsonArray(<<>>)} \cup {JsonSingle(<<o>>) : o \in DirectoryObjects}

\* the replies of one UDP window
PhaseReplies == SeqUpTo(DiscoverReplies, 1)

\* a branch whose request is out and whose results are being collected
Collecting == [out |-> "pending", devs |-> <<>>]

\* a directory request started as a task of its own
AwaitHttpDetached == "udp"

\* line 90, await DiscoverHTTP.discover(): discover() goes on when it returned
AwaitHttp == "http_wait"

\* a UDP discovery started as a task of its own
AwaitUdpDetached == "enrich"

\* line 101, await DiscoverUDP.discover(...)
AwaitUdp == "udp_wait"

InitPhases ==
    /\ scenario = "phases"
    /\ InitDiscover

\* lines 86-90
HttpRequest ==
    /\ scenario = "phases" /\ pc = "http"
    /\ mode \in HttpModes
    /\ http_found' = Collecting
    /\ pc' = AwaitHttp
    /\ UNCHANGED <<scenario, windowVars, callVars, deviceVars, gatherVars, mode, devices, idx, result, exc, udp_found, merged, io>>

HttpSkipped ==
    /\ scenario = "phases" /\ pc = "http"
    /\ mode \notin HttpModes
    /\ http_found' = [out |-> "skipped", devs |-> <<>>]
    /\ pc' = "udp"
    /\ UNCHANGED <<scenario, windowVars, callVars, deviceVars, gatherVars, mode, devices, idx, result, exc, udp_found, merged, io>>

\* lines 91-92
HttpUnavailable ==
    /\ scenario = "phases" /\ pc = "http_wait"
    /\ \E failure \in HttpFailures :
           http_found' = [out |-> "unavailable", devs |-> <<>>]
    /\ pc' = "udp"
    /\ UNCHANGED <<scenario, windowVars, callVars, deviceVars, gatherVars, mode, devices, idx, result, exc, udp_found, merged, io>>

\* line 90, the list is returned
HttpListReturned ==
    /\ scenario = "phases" /\ pc = "http_wait"
    /\ \E body \in PhaseBodies :
           http_found' = [out |-> "ok", devs |-> DiscoverHTTP_discover(DirectoryHost, body)]
    /\ pc' = "http_insert"
    /\ UNCHANGED <<scenario, windowVars, callVars, deviceVars, gatherVars, mode, devices, idx, result, exc, udp_found, merged, io>>

\* lines 93-96
HttpInsert ==
    /\ scenario = "phases" /\ pc = "http_insert"
    /\ devices' = InsertHttp(devices, http_found.devs)
    /\ pc' = "udp"
    /\ UNCHANGED <<scenario, windowVars, callVars, deviceVars, gatherVars, mode, idx, result, exc, http_found, udp_found, merged, io>>

\* lines 100-103
UdpRequest ==
    /\ scenario = "phases" /\ pc = "udp"
    /\ mode \in UdpModes
    /\ udp_found' = Collecting
    /\ pc' = AwaitUdp
    /\ UNCHANGED <<scenario, windowVars, callVars, deviceVars, gatherVars, mode, devices, idx, result, exc, http_found, merged, io>>

UdpSkipped ==
    /\ scenario = "phases" /\ pc = "udp"
    /\ mode \notin UdpModes
    /\ udp_found' = [out |-> "skipped", devs |-> <<>>]
    /\ merged' = devices
    /\ pc' = "enrich"
    /\ UNCHANGED <<scenario, windowVars, callVars, deviceVars, gatherVars, mode, devices, idx, result, exc, http_found, io>>

\* line 101, the list is returned
UdpWindowOver ==
    /\ scenario = "phases" /\ pc = "udp_wait"
    /\ \E dgrams \in PhaseReplies :
           udp_found' = [out |-> "ok", devs |-> DiscoverUDP_discover(dgrams)]
    /\ pc' = "udp_merge"
    /\ UNCHANGED <<scenario, windowVars, callVars, deviceVars, gatherVars, mode, devices, idx, result, exc, http_found, merged, io>>

\* lines 104-117
UdpMerge ==
    /\ scenario = "phases" /\ pc = "udp_merge"
    /\ devices' = MergeUdp(devices, udp_found.devs)
    /\ merged' = MergeUdp(devices, udp_found.devs)
    /\ pc' = "enrich"
    /\ UNCHANGED <<scenario, windowVars, callVars, deviceVars, gatherVars, mode, idx, result, exc, http_found, udp_found, io>>

\* lines 124-125, await DiscoverHTTP.rediscover(target=dev)
RediscoverRequest ==
    /\ scenario = "phases" /\ pc = "enrich" /\ idx <= Len(devices)
    /\ io' = "pending"
    /\ pc' = "enrich_wait"
    /\ UNCHANGED <<scenario, windowVars, callVars, deviceVars, gatherVars, mode, devices, idx, result, exc, http_found, udp_found, merged>>

RediscoverUnavailable ==
    /\ scenario = "phases" /\ pc = "enrich_wait"
    /\ \E failure \in HttpFailures : io' = "unavailable"
    /\ out' = Append(out, [outcome |-> "unavailable", updated |-> None])
    /\ idx' = idx + 1
    /\ pc' = "enrich"
    /\ UNCHANGED <<scenario, windowVars, arg, returned, deviceVars, gatherVars, mode, devices, result, exc, http_found, udp_found, merged>>

RediscoverAnswered ==
    /\ scenario = "phases" /\ pc = "enrich_wait"
    /\ \E body \in DeviceBodies :
           LET target == devices[idx].dev
           IN  IF RediscoverRaises(target, body)
               THEN /\ io' = "empty"
                    /\ out' = Append(out, [outcome |-> "empty", updated |-> None])
                    /\ pc' = "raised"
                    /\ exc' = "IndexError"
                    /\ devices' = [devices EXCEPT ![idx].dev = RediscoverMark(target)]
                    /\ UNCHANGED idx
               ELSE /\ io' = "ok"
                    /\ out' = Append(out, [outcome |-> "ok",
                                           updated |-> Some(RediscoverUpdated(target, body))])
                    /\ pc' = "enrich"
                    /\ devices' = [devices EXCEPT ![idx].dev = RediscoverMerge(target, body)]
                    /\ idx' = idx + 1
                    /\ UNCHANGED exc
    /\ UNCHANGED <<scenario, windowVars, arg, returned, deviceVars, gatherVars, mode, result, http_found, udp_found, merged>>

\* line 132
PhaseReturn ==
    /\ scenario = "phases" /\ pc = "enrich" /\ idx > Len(devices)
    /\ result' = Values(devices)
    /\ pc' = "done"
    /\ UNCHANGED <<scenario, windowVars, callVars, deviceVars, gatherVars, mode, devices, idx, exc, http_found, udp_found, merged, io>>

NextPhases ==
    \/ HttpRequest
    \/ HttpSkipped
    \/ HttpUnavailable
    \/ HttpListReturned
    \/ HttpInsert
    \/ UdpRequest
    \/ UdpSkipped
    \/ UdpWindowOver
    \/ UdpMerge
    \/ RediscoverRequest
    \/ RediscoverUnavailable
    \/ RediscoverAnswered
    \/ PhaseReturn

InitPhasesCall ==
    /\ InitPhases
    /\ DeviceUnused
    /\ GatherUnused
    /\ WindowUnused
    /\ CallUnused

SpecPhases == InitPhasesCall /\ [][NextPhases]_vars

\* every request is answered or times out, every sleep ends, and the event
\* loop goes on running the coroutine: a step that can be taken is taken
SpecPhasesLive == SpecPhases /\ WF_vars(NextPhases)

(***************************************************************************)
(* HDHomeRunDevice (device.py): _async_gather_details_http and the         *)
(* properties that read _raw_details, each applied as one call.  Scenario  *)
(* "details".                                                              *)
(***************************************************************************)
\* DevicePaths.DISCOVER, LINEUP and LINEUP_STATUS without ".json", in the
\* order of the requests
DetailKeys == <<"discover", "lineup", "lineup_status">>

\* _raw_details: empty, or what an earlier gather stored
RawDetails ==
    {[k \in {"discover", "lineup", "lineup_status"} |-> v] : v \in {None, Some("old")}}

\* what one GET gives: a 2xx response with a JSON body, a 2xx response
\* whose body is not JSON, or a failure
DetailOutcomes == {"ok", "ok_invalid"} \cup HttpFailures

\* a join that waits for every request and keeps what succeeded
JoinRaisesNever(outcomes) == {}

\* line 121, asyncio.gather(*requests): the exceptions one of which leaves
\* the await; none when every request succeeded
JoinRaises(outcomes) == {outcomes[i] : i \in 1..Len(outcomes)} \cap HttpFailures

\* lines 122-124: the loop over the responses, from the i-th on
RECURSIVE StoreResponses(_, _, _)
StoreResponses(raw, outcomes, i) ==
    IF i > Len(outcomes) THEN [raw |-> raw, exc |-> "none"]
    ELSE IF outcomes[i] = "ok_invalid" THEN [raw |-> raw, exc |-> "ContentTypeError"]
    ELSE IF outcomes[i] # "ok" THEN StoreResponses(raw, outcomes, i + 1)
    ELSE StoreResponses([raw EXCEPT ![DetailKeys[i]] = Some("new")], outcomes, i + 1)

\* the properties with a value from discover.json and one of their own:
\* the key of discover.json and the attribute
Accessors ==
    [base_url |-> [key |-> "BaseURL", attr |-> "_base_url"],
     device_auth_string |-> [key |-> "DeviceAuth", attr |-> "_device_auth_str"],
     device_id |-> [key |-> "DeviceID", attr |-> "_device_id"],
     hw_model |-> [key |-> "ModelNumber", attr |-> "_sys_hwmodel"],
     installed_version |-> [key |-> "FirmwareVersion", attr |-> "_sys_version"],
     lineup_url |-> [key |-> "LineupURL", attr |-> "_lineup_url"],
     model |-> [key |-> "FirmwareName", attr |-> "_sys_model"],
     tuner_count |-> [key |-> "TunerCount", attr |-> "_tuner_count"]]

\* a key of discover.json: not held, or held with null (None), with an
\* empty value ("", or 0 for TunerCount) or with a value
JsonEntries ==
    {[held |-> FALSE, value |-> None]}
    \cup {[held |-> TRUE, value |-> v] : v \in {None, Some(""), Some("http-value")}}

\* the attribute the control protocol or the UDP reply filled, if any
OwnValues == {None, Some("udp-value")}

\* dict.get(key, default)
DictGet(entry, default) == IF entry.held THEN entry.value ELSE default

\* self._raw_details.get("discover", {}).get(key, self._attr)
Accessor(discover, own) ==
    IF discover = None THEN own ELSE DictGet(discover[1], own)

InitDetails ==
    /\ scenario = "details"
    /\ arg \in {Some([kind |-> "gather_http", raw |-> r, outcomes |-> o]) :
                   r \in RawDetails, o \in [1..3 -> DetailOutcomes]}
               \cup {Some([kind |-> "accessor", name |-> n, discover |-> d, own |-> w]) :
                        n \in DOMAIN Accessors,
                        d \in {None} \cup {Some(e) : e \in JsonEntries},
                        w \in OwnValues}
    /\ out = None
    /\ returned = NothingReturned

\* _async_gather_details_http, lines 106-124
GatherDetailsHttp ==
    /\ scenario = "details"
    /\ arg[1].kind = "gather_http"
    /\ out = None
    /\ IF JoinRaises(arg[1].outcomes) # {}
       THEN \E failure \in JoinRaises(arg[1].outcomes) :
                out' = Some([raw |-> arg[1].raw, exc |-> failure])
       ELSE out' = Some(StoreResponses(arg[1].raw, arg[1].outcomes, 1))
    /\ UNCHANGED <<scenario, discoverVars, deviceVars, gatherVars, windowVars,
                   arg, returned>>

\* one of the properties of lines 306-390 is read
ReadProperty ==
    /\ scenario = "details"
    /\ arg[1].kind = "accessor"
    /\ out = None
    /\ out' = Some([value |-> Accessor(arg[1].discover, arg[1].own)])
    /\ UNCHANGED <<scenario, discoverVars, deviceVars, gatherVars, windowVars,
                   arg, returned>>

NextDetails ==
    \/ GatherDetailsHttp
    \/ ReadProperty

InitDetailsCall ==
    /\ DiscoverUnused
    /\ DeviceUnused
    /\ GatherUnused
    /\ WindowUnused
    /\ InitDetails

SpecDetails == InitDetailsCall /\ [][NextDetails]_vars

(***************************************************************************)
(* The codec of the binary protocol, HDHomeRunProtocol.build_request and   *)
(* parse_response, which do_discover and datagram_received call.  A frame  *)
(* is a sequence of bytes: the packet type and the payload length (two     *)
(* bytes each, big-endian), the entries of the payload (the tag, the       *)
(* length of the value, the value) and four bytes of checksum.  Scenario   *)
(* "codec".                                                                *)
(***************************************************************************)
\* entries of a payload
MaxEntries == 2

\* DISCOVER_REQ, DISCOVER_RPY, GETSET_REQ, GETSET_RPY
PacketTypes == {2, 3, 4, 5}

\* DEVICE_TYPE, DEVICE_ID, GETSET_NAME
CodecTags == {1, 2, 3}

Bytes(n, b) == [i \in 1..n |-> b]

\* values: empty, short, with a trailing NUL, and of 127, 128 and 300 bytes
CodecValues == {<<>>, <<65>>, <<65, 0>>, Bytes(127, 66), Bytes(128, 67), Bytes(300, 68)}

\* a length written as one byte whatever it is
EncodeLengthOneByte(n) == <<n % 256>>

\* the length of a value: one byte up to 127, two bytes from 128 on
EncodeLength(n) ==
    IF n < 128 THEN <<n>> ELSE <<128 + (n % 128), n \div 128>>

\* the length read at a position of the frame, and the bytes it took
DecodeLength(raw, pos) ==
    IF raw[pos] < 128 THEN [len |-> raw[pos], took |-> 1]
    ELSE [len |-> (raw[pos] - 128) + 128 * raw[pos + 1], took |-> 2]

BigEndian16(n) == <<n \div 256, n % 256>>

\* the checksum of the frame, four bytes; stands for the CRC32
RECURSIVE ByteSum(_, _, _)
ByteSum(bytes, lo, hi) ==
    IF lo > hi THEN 0
    ELSE IF lo = hi THEN lo * (bytes[lo] + 1)
    ELSE LET mid == (lo + hi) \div 2
         IN  (ByteSum(bytes, lo, mid) + ByteSum(bytes, mid + 1, hi)) % 16777216

Checksum(bytes) ==
    LET c == ByteSum(bytes, 1, Len(bytes))
    IN  <<c % 256, (c \div 256) % 256, c \div 65536, Len(bytes) % 256>>

RECURSIVE EncodeEntries(_)
EncodeEntries(payload) ==
    IF payload = <<>> THEN <<>>
    ELSE <<Head(payload)[1]>> \o EncodeLength(Len(Head(payload)[2]))
         \o Head(payload)[2] \o EncodeEntries(Tail(payload))

build_request(packet_type, packet_payload) ==
    LET body == EncodeEntries(packet_payload)
        framed == BigEndian16(packet_type) \o BigEndian16(Len(body)) \o body
    IN  framed \o Checksum(framed)

\* the entries between two positions of the frame, as a mapping of each tag
\* to its value; a later entry of a tag replaces the earlier one.  An entry
\* that runs past the end of the payload is a decoding error.
RECURSIVE DecodeEntries(_, _, _, _)
DecodeEntries(raw, pos, end, data) ==
    IF pos > end THEN [exc |-> "none", data |-> data]
    ELSE IF pos + 1 > end \/ (raw[pos + 1] >= 128 /\ pos + 2 > end)
    THEN [exc |-> "ProtocolDecodeError", data |-> <<>>]
    ELSE LET length == DecodeLength(raw, pos + 1)
             from == pos + 1 + length.took
         IN  IF from + length.len - 1 > end
             THEN [exc |-> "ProtocolDecodeError", data |-> <<>>]
             ELSE DecodeEntries(raw, from + length.len, end,
                      [t \in DOMAIN data \cup {raw[pos]} |->
                          IF t = raw[pos]
                          THEN SubSeq(raw, from, from + length.len - 1)
                          ELSE data[t]])

parse_response(raw) ==
    LET header == 256 * raw[1] + raw[2]
        length == 256 * raw[3] + raw[4]
    IN  IF \/ header \notin PacketTypes
           \/ length + 8 > Len(raw)
           \/ SubSeq(raw, length + 5, length + 8) # Checksum(SubSeq(raw, 1, length + 4))
        THEN [exc |-> "ProtocolDecodeError", header |-> header, length |-> length,
              data |-> <<>>]
        ELSE [header |-> header, length |-> length]
             @@ DecodeEntries(raw, 5, length + 4, <<>>)

InitCodec ==
    /\ scenario = "codec"
    /\ arg \in {Some([type |-> t, payload |-> p]) :
                   t \in PacketTypes,
                   p \in SeqUpTo(CodecTags \X CodecValues, MaxEntries)}
    /\ out = None
    /\ returned = NothingReturned

\* a frame is built and parsed
RoundTrip ==
    /\ scenario = "codec"
    /\ out = None
    /\ out' = Some(parse_response(build_request(arg[1].type, arg[1].payload)))
    /\ UNCHANGED <<scenario, discoverVars, deviceVars, gatherVars, windowVars,
                   arg, returned>>

NextCodec == RoundTrip

InitCodecCall ==
    /\ DiscoverUnused
    /\ DeviceUnused
    /\ GatherUnused
    /\ WindowUnused
    /\ InitCodec

SpecCodec == InitCodecCall /\ [][NextCodec]_vars

(***************************************************************************)
(* Properties of Discover.discover.                                        *)
(***************************************************************************)
IntFields == {"device_type", "tuner_count"}
Truthy(f, o) == o # None /\ (IF f \in IntFields THEN o[1] # 0 ELSE o[1] # "")

Indices(s) == 1..Len(s)
IdsOf(devs) == {devs[i].device_id : i \in Indices(devs)}
\* the last device of a list with the given device_id
LastOf(devs, id) ==
    devs[CHOOSE i \in Indices(devs) :
            /\ devs[i].device_id = id
            /\ \A j \in Indices(devs) : devs[j].device_id = id => j <= i]
\* the positions of a list whose device has the id and a value for the field
Holding(devs, id, f) ==
    {i \in Indices(devs) : devs[i].device_id = id /\ devs[i][f] # None}
Max(S) == CHOOSE m \in S : \A n \in S : n <= m
FoundByBoth == IdsOf(http_found.devs) \cap IdsOf(udp_found.devs)
SharedFields == Range(JSON_PROPERTIES_MAP) \cap Range(TAG_PROPERTY_MAP)

\* C1: the list returned by Discover.discover holds no two devices with the
\* same device_id.
C1_NoDuplicateIds ==
    pc = "done" =>
        \A i, j \in Indices(result) :
            i # j => result[i].device_id # result[j].device_id

C3_EnrichmentNeverAborts ==
    /\ pc # "raised"
    /\ pc = "done" => Len(result) = Len(merged)

\* C4: in AUTO mode with the HTTP directory unavailable, Discover.discover
\* does not raise and returns every device the UDP discovery found.
C4_UdpSurvivesHttpFailure ==
    (mode = "AUTO" /\ http_found.out = "unavailable" /\ pc \in {"done", "raised"}) =>
        /\ pc = "done"
        /\ Len(result) = Cardinality(IdsOf(udp_found.devs))

DeviceIdKept ==
    pc \in {"udp", "enrich"} =>
        \A i \in Indices(devices) :
            devices[i].dev.device_id # None =>
                devices'[i].dev.device_id = devices[i].dev.device_id

\* C5 (discovery part): no step of the UDP merge or of the enrichment pass
\* changes a device_id that is set.
C5_DeviceIdImmutable == [][DeviceIdKept]_vars

(***************************************************************************)
(* Properties of the devices' operations.                                  *)
(***************************************************************************)
\* the device's own reply carries the tag, and its decoded value is falsy
FalsyInOwnReply(d, tag) ==
    /\ d.processed_datagram[1].data[tag] # None
    /\ ~TruthyValue(tag, DecodeTag(tag, d.processed_datagram[1].data[tag][1]))

FalsyTagKeepsField ==
    (scenario = "gather" /\ glast'.op = "gather_details_udp") =>
        \A t \in DOMAIN TAG_PROPERTY_MAP :
            FalsyInOwnReply(gdev[1], t) =>
                gdev'[1][TAG_PROPERTY_MAP[t]] = gdev[1][TAG_PROPERTY_MAP[t]]

\* C6: a tag of a UDP reply whose decoded value is zero or the empty string
\* sets no field: in the tag-by-tag merge of _async_gather_details_udp the
\* field keeps the value it had before.
C6_FalsyTagSetsNoField == [][FalsyTagKeepsField]_vars

FailedHttpRefreshKeepsStatus ==
    (scenario = "refresh" /\ last'.op = "tuner_refresh_http"
        /\ last'.io[1] \in GetFailures) =>
        dev'.tuner_status = dev.tuner_status

\* C7: when the status.json request of a tuner refresh fails (timeout, error
\* status, any other exception), tuner_status keeps exactly the value it had
\* before that refresh.
C7_FailedHttpRefreshKeepsStatus == [][FailedHttpRefreshKeepsStatus]_vars

\* a failed status.json request after a refresh that stored a status
C7_Witness ==
    /\ scenario = "refresh" /\ last.op = "tuner_refresh_http"
    /\ last.io[1] \in GetFailures
    /\ dev.tuner_status = Some(<<HttpTunerRecord>>)

NoReplyLeavesNoStatus ==
    /\ (scenario = "refresh" /\ last'.op = "tuner_refresh_tcp" /\ last'.io # <<>>
           /\ \A i \in 1..Len(last'.io) : last'.io[i] = "unreachable") =>
          dev'.tuner_status \in {None, Some(<<>>)}
    /\ (scenario = "status" /\ glast'.op = "get_tuner_status_udp" /\ glast'.io # <<>>
           /\ \A i \in 1..Len(glast'.io) : glast'.io[i] = "unreachable") =>
          gdev'[1].tuner_status \in {None, Some(<<>>)}

\* C8: when a control-protocol tuner status refresh gets a reply from no
\* tuner, tuner_status afterwards is empty or absent: a status list stored by
\* an earlier refresh is not retained.
C8_NoReplyLeavesNoStatus == [][NoReplyLeavesNoStatus]_vars

\* the outcomes of a request that are connection-level failures
ConnectionFailures == {"timeout", "connection_error", "unreachable"}

OnlineDropsOnlyOnConnectionFailure ==
    /\ (dev.is_online /\ ~dev'.is_online) =>
          \E i \in 1..Len(last'.io) : last'.io[i] \in ConnectionFailures
    /\ (ret # None /\ ret' # None /\ ret[1].is_online /\ ~ret'[1].is_online) =>
          last'.io[Len(last'.io)] \in ConnectionFailures
    /\ (last' # last /\ last'.io # <<>> /\ last'.io[Len(last'.io)] = "ok_empty") =>
          /\ dev'.is_online \/ ~dev.is_online
          /\ ret' = None \/ ret'[1].is_online \/ (ret # None /\ ~ret[1].is_online)

C10_TimeoutSetsOfflineAndReturns ==
    /\ (scenario = "refresh" /\ last.op = "tuner_refresh_http"
           /\ last.io = <<"timeout">>) =>
          ~dev.is_online /\ last.exc = "none"
    /\ (scenario = "rediscover" /\ last.op = "async_rediscover" /\ rpc = "idle"
           /\ last.io # <<>> /\ last.io[Len(last.io)] = "timeout") =>
          ret # None /\ ~ret[1].is_online /\ last.exc = "none"

\* the lineup fetch of a rediscovered device timed out
C10_Witness ==
    /\ scenario = "rediscover" /\ last.op = "async_rediscover" /\ rpc = "idle"
    /\ last.io # <<>> /\ last.io[Len(last.io)] = "timeout"
    /\ ret # None /\ ~ret[1].is_online

\* every state of the devices' operations is well-formed
TypeOKDevice ==
    /\ scenario \in {"refresh", "rediscover", "gather", "status"}
    /\ rpc \in {"idle", "lineup"}

RestartFailurePropagates ==
    (scenario = "rediscover" /\ last'.op = "async_restart" /\ last'.io # <<"sent">>) =>
        /\ last'.exc = last'.io[1]
        /\ dev' = dev
        /\ ret' = ret

\* C11: a failure raised while the restart command is sent leaves
\* async_restart as the same exception, and the device's state, online
\* included, is what it was before the call.
C11_RestartFailurePropagates == [][RestartFailurePropagates]_vars

\* a restart that timed out, on a device that is still online
C11_Witness ==
    /\ scenario = "rediscover" /\ last.op = "async_restart"
    /\ last.io = <<"TimeoutError">> /\ last.exc = "TimeoutError"
    /\ dev.is_online

\* the device the last rediscover was called on, as it was before the call
CalledOn == IF Len(out) = 1 THEN arg[1].target ELSE out[Len(out) - 1]

\* the last rediscover returned (it did not raise)
RediscoverReturned ==
    /\ scenario = "merge"
    /\ arg[1].kind = "rediscover"
    /\ out # <<>>
    /\ \/ arg[1].source.failure # None
       \/ ~RediscoverRaises(CalledOn, arg[1].source.body[1])

C13_RediscoverRefreshesTarget ==
    (scenario = "rediscover" /\ last.op = "async_rediscover" /\ rpc = "idle"
        /\ last.exc = "none" /\ ret # None) =>
        dev = ret[1]


\* the devices of the discovery replies among the datagrams, in order
RepliesOf(dgrams) ==
    DiscoverUDP_discover(SelectSeq(dgrams, LAMBDA g : ~DatagramRaises(g)))

\* C14: DiscoverUDP.discover does not return before its timeout has elapsed,
\* however many replies came and however early; what it returns holds a
\* device for every discovery reply received in the window, in order.
C14_ReturnsAfterTimeoutWithEveryReply ==
    (scenario = "window" /\ wpc = "returned") =>
        /\ clock = WindowTicks
        /\ wresult = RepliesOf(heard)

C14_Witness ==
    /\ scenario = "window"
    /\ wpc = "returned"
    /\ clock = WindowTicks
    /\ Len(heard) = MaxUdp
    /\ Len(wresult) = MaxUdp

\* C15: once the endpoint is created, DiscoverUDP.discover has closed the
\* transport whenever it is left, by return or by an exception or a
\* cancellation during the wait.
C15_TransportClosedOnEveryExit ==
    (scenario = "window" /\ wpc \in {"returned", "raised"} /\ transport # "none")
        => transport = "closed"

C15_Witness ==
    /\ scenario = "window"
    /\ wpc = "raised"
    /\ wexc = "CancelledError"
    /\ transport = "closed"
    /\ heard # <<>>

\* a datagram_received step
Received == scenario = "window" /\ Len(heard') = Len(heard) + 1

DatagramWithOtherHeaderAddsNothing ==
    Received =>
        LET dgram == heard'[Len(heard')]
        IN  IF dgram.header # "DISCOVER_RPY"
            THEN /\ discovered_devices' = discovered_devices
                 /\ wpc' = "waiting"
                 /\ transport' = "open"
            ELSE discovered_devices' =
                     Append(discovered_devices, DeviceFromDatagram(dgram))

\* C16: a datagram whose header is not the discovery reply adds no device
\* and leaves the devices collected so far as they are; the endpoint goes on
\* listening, and a discovery reply that comes later in the window is
\* collected.
C16_DatagramWithOtherHeaderAddsNothing ==
    [][DatagramWithOtherHeaderAddsNothing]_vars

C16_Witness ==
    /\ scenario = "window"
    /\ Len(heard) = 2
    /\ heard[1].header = "GETSET_RPY"
    /\ heard[2].header = "DISCOVER_RPY"
    /\ Len(discovered_devices) = 1
    /\ wpc = "returned"
    /\ wresult = discovered_devices

\* a rediscover of the enrichment loop that failed: the GET failed, or the
\* response held no device
EnrichFailed ==
    /\ scenario = "discover"
    /\ pc = "enrich"
    /\ idx' # idx \/ pc' = "raised"
    /\ io' \in {"unavailable", "empty"}

\* C17: when the rediscover of the enrichment loop fails for a device, every
\* field of that device, discovery_method and discover_url included, has the
\* value it had before the attempt.
C17_FailedEnrichKeepsDevice ==
    [][EnrichFailed => devices'[idx].dev = devices[idx].dev]_vars

\* the fields a merge writes
MergedFields == Range(JSON_PROPERTIES_MAP) \cup Range(TAG_PROPERTY_MAP)

\* a present, non-empty value (a discover_url is a parsed URL, never empty)
Present(f, o) == o # None /\ (f = "discover_url" \/ Truthy(f, o))

KeepsPresentValues(old, new) ==
    \A f \in MergedFields : Present(f, old[f]) => Present(f, new[f])

MergeKeepsPresentValues ==
    /\ (scenario = "discover" /\ pc = "udp" /\ pc' = "enrich") =>
           \A i \in Indices(devices) :
               KeepsPresentValues(devices[i].dev, devices'[i].dev)
    /\ (scenario = "discover" /\ pc = "enrich" /\ io' = "ok" /\ idx' = idx + 1) =>
           KeepsPresentValues(devices[idx].dev, devices'[idx].dev)

\* C18: no merge step, the UDP merge of Discover.discover or the HTTP merge of
\* DiscoverHTTP.rediscover, replaces a present, non-empty field of a device by
\* an absent or falsy value (None, "" or 0).
C18_MergeKeepsPresentValues == [][MergeKeepsPresentValues]_vars

\* a source was merged: the UDP merge loop ran, or rediscover got a response
\* with a device
Merged ==
    /\ scenario = "merge"
    /\ out # <<>>
    /\ arg[1].kind = "rediscover" =>
           /\ arg[1].source.body # None
           /\ ~RediscoverRaises(arg[1].target, arg[1].source.body[1])

\* C19: merging the same source record into a device again leaves the device
\* as the first merge left it, for the UDP merge loop of Discover.discover
\* (the devices of the window merged again into the map) and for the HTTP
\* merge loop of DiscoverHTTP.rediscover (the same response merged again into
\* the device).
C19_MergeIsIdempotent ==
    Merged => \A i \in 1..Len(out) : out[i] = out[1]

\* two UDP devices with one id merged twice into a map that held the id
C19_Witness ==
    /\ Merged
    /\ arg[1].kind = "udp"
    /\ Len(out) >= 2
    /\ out[2] = out[1]
    /\ out[1] # arg[1].target
    /\ Len(arg[1].target) = Len(out[1])
    /\ Len(arg[1].source) = 2
    /\ arg[1].source[1].device_id = arg[1].source[2].device_id
    /\ arg[1].source[1] # arg[1].source[2]

\* the details of the decoded string that carry the tag
DetailsOf(tag) == {i \in 1..Len(arg[1].value) : arg[1].value[i][1] = tag}

\* C20: in the record decoded from a tuner status string, a tag (ss, snq,
\* seq) whose value parses to the integer 0 has no entry, and a tag whose
\* value parses to another integer has an entry, with that integer.
C20_ZeroTagsAreLeftOut ==
    (scenario = "parse" /\ out # None) =>
        \A tag \in DOMAIN StatusKeys : \A i \in DetailsOf(tag) :
            LET value == ParseInt(arg[1].value[i][2])
                key == StatusKeys[tag]
            IN  /\ value = Some(0) => key \notin DOMAIN out[1]
                /\ (value # None /\ value # Some(0)) =>
                       /\ key \in DOMAIN out[1]
                       /\ out[1][key] = value[1]

C20_Witness ==
    /\ scenario = "parse"
    /\ out # None
    /\ arg[1].value[3] = <<"ss", "00">>
    /\ arg[1].value[4] = <<"snq", "0">>
    /\ arg[1].value[5] = <<"seq", "80">>
    /\ DOMAIN out[1] = {"Resource", "SymbolQualityPercent"}
    /\ out[1].SymbolQualityPercent = 80

\* the tuners that replied with a symbol lock, whose channel is looked up
LookedUp == {i \in 1..Len(arg[1]) :
                /\ arg[1][i] # None
                /\ "SymbolQualityPercent" \in
                       DOMAIN ParseStatus(get_tuner_status(i - 1, arg[1][i])[1])}

\* the records of a status list that belong to the tuner
RecordsOf(status, i) ==
    {k \in 1..Len(status) : status[k].Resource = TunerName(i - 1)}

\* C21: in a control-protocol tuner refresh (discover.py) where the channel
\* id of every tuner that is looked up matches no line of its channel-name
\* table, the refresh does not raise, and the record of each such tuner has
\* no VctNumber and no VctName.
C21_NoMatchGivesNoChannelFields ==
    (/\ scenario = "tuners"
     /\ out # None
     /\ out[1].fn = "tuner_refresh_tcp"
     /\ LookedUp # {}
     /\ \A i \in LookedUp : MatchingNames(arg[1][i][1].chan) = {}) =>
        /\ out[1].exc = "none"
        /\ \A i \in LookedUp :
              /\ RecordsOf(out[1].status, i) # {}
              /\ \A k \in RecordsOf(out[1].status, i) :
                     /\ "VctNumber" \notin DOMAIN out[1].status[k]
                     /\ "VctName" \notin DOMAIN out[1].status[k]

\* the names of the tuners that replied, in index order
RepliedTuners(outcomes) ==
    LET named == [i \in 1..Len(outcomes) |->
                     [name |-> TunerName(i - 1), outcome |-> outcomes[i]]]
        replied == SelectSeq(named, LAMBDA t : t.outcome = "reply")
    IN  [k \in 1..Len(replied) |-> replied[k].name]

\* the tuners the records of tuner_status belong to, in order
ResourcesOf(tuner_status) ==
    IF tuner_status = None THEN <<>>
    ELSE [k \in 1..Len(tuner_status[1]) |-> tuner_status[1][k].Resource]

\* C22: after a control-protocol tuner refresh (discover.py) that completed,
\* tuners without a reply having been skipped, tuner_status holds exactly one
\* record for each tuner that replied, in tuner index order.
C22_OneRecordPerReplyingTuner ==
    (scenario = "refresh" /\ last.op = "tuner_refresh_tcp" /\ last.exc = "none") =>
        ResourcesOf(dev.tuner_status) = RepliedTuners(last.io)

\* a 4-byte value as 8 uppercase hexadecimal digits
EightHexDigits(n) == ZeroPad(HexString(n), 8)

\* the discovery replies among the datagrams received
RepliesHeard == SelectSeq(heard, LAMBDA g : ~DatagramRaises(g))

\* C23: the device_id of the device built from a UDP reply is the reply's
\* 4-byte device id rendered as exactly 8 uppercase hexadecimal digits, with
\* leading zeros.
C23_DeviceIdIsEightHexDigits ==
    scenario = "window" =>
        \A k \in 1..Len(discovered_devices) :
            discovered_devices[k].device_id =
                Some(EightHexDigits(RepliesHeard[k].data["DEVICE_ID"][1]))

\* C24: in the list Discover.discover returns, a device that only the UDP
\* discovery found (its device_id is not in the HTTP directory result) has
\* discovery_method UDP.
C24_UdpOnlyDeviceKeepsUdpMethod ==
    (scenario = "discover" /\ pc = "done") =>
        \A i \in Indices(devices) :
            devices[i].key \notin IdsOf(http_found.devs) =>
                result[i].discovery_method = Some("UDP")

\* DiscoverHTTP.discover got a JSON body and has returned
HttpAnswered == scenario = "http" /\ out # None /\ arg[1].outcome = "ok"

\* C25: DiscoverHTTP.discover returns one device per JSON object of the
\* response: a single object gives what the one-element array holding it
\* gives, and an empty object or an empty array gives no device.
C25_OneDevicePerJsonObject ==
    HttpAnswered =>
        /\ out[1].exc = "none"
        /\ Len(out[1].devices[1]) = Len(arg[1].body.items)
        /\ \A i \in 1..Len(arg[1].body.items) :
               out[1].devices[1][i] = DeviceFromJson(arg[1].body.items[i], arg[1].host)
        /\ arg[1].body.kind = "object" =>
               out[1].devices[1] =
                   DiscoverHTTP_discover(arg[1].host, JsonArray(arg[1].body.items))

C25_Witness ==
    /\ HttpAnswered
    /\ arg[1].body.kind = "object"
    /\ Len(out[1].devices[1]) = 1
    /\ out[1].devices[1][1].device_id = Some("1234ABCD")
    /\ out[1].devices[1][1].host = Some("10.0.0.6")

\* C26: a failure of the GET of DiscoverHTTP.discover (connection error,
\* timeout, non-2xx status) reaches the caller as
\* HDHomeRunHTTPDiscoveryNotAvailableError, and no device is returned.
C26_GetFailureIsNotAvailable ==
    (scenario = "http" /\ out # None /\ arg[1].outcome \in HttpFailures) =>
        /\ out[1].exc = "HDHomeRunHTTPDiscoveryNotAvailableError"
        /\ out[1].devices = None

C26_Witness ==
    /\ scenario = "http"
    /\ out # None
    /\ arg[1].outcome = "timeout"
    /\ out[1].exc = "HDHomeRunHTTPDiscoveryNotAvailableError"
    /\ out[1].devices = None

\* a branch that has returned, or that the mode leaves out
Finished(found) == found.out \in {"ok", "unavailable", "skipped"}

MergeComplete ==
    /\ merged = MergeUdp(InsertHttp(<<>>, http_found.devs), udp_found.devs)
    /\ Keys(devices) = Keys(merged)

\* C28: Discover.discover goes through its phases in a fixed order: no
\* step changes the device map while a discovery branch is collecting its
\* results, and a rediscover of the enrichment is issued only when both
\* branches have finished and the merge is complete.
C28_PhasesInOrder ==
    [][scenario = "phases" =>
          /\ devices' # devices => (http_found # Collecting /\ udp_found # Collecting)
          /\ (io' = "pending" /\ pc = "enrich") =>
                 (Finished(http_found) /\ Finished(udp_found) /\ MergeComplete)]_vars

C28_Witness ==
    /\ scenario = "phases"
    /\ mode = "AUTO"
    /\ io = "pending"
    /\ idx = 2
    /\ http_found.out = "ok"
    /\ udp_found.out = "ok"
    /\ Len(devices) = 2

Reverse(s) == [i \in 1..Len(s) |-> s[Len(s) + 1 - i]]

\* the devices of a map, whatever their order
DevicesOf(map) == {map[i].dev : i \in 1..Len(map)}

\* C29: the devices of the map after the UDP merge of Discover.discover,
\* and the values of their fields, are the same when the replies of the
\* window arrived in the opposite order, the replies of one device that
\* answered more than once included.
C29_MergeIgnoresReplyOrder ==
    (scenario = "merge" /\ arg[1].kind = "udp" /\ out # <<>>) =>
        DevicesOf(out[1]) = DevicesOf(MergeUdp(arg[1].target, Reverse(arg[1].source)))

\* the ids the UDP merge finds in the map already
InMapAndUdp == Keys(arg[1].target) \cap IdsOf(arg[1].source)

\* C30: in the UDP merge of Discover.discover, for a device the map holds
\* already, every property the UDP replies of the device decoded (not None)
\* replaces the value the map had from HTTP, and a property no UDP reply
\* of the device holds keeps its HTTP value.
C30_UdpValueWinsUnlessNone ==
    (scenario = "merge" /\ arg[1].kind = "udp" /\ out # <<>>) =>
        \A id \in InMapAndUdp : \A f \in Range(TAG_PROPERTY_MAP) :
            LET before == arg[1].target[IndexOf(arg[1].target, id)].dev
                after == out[1][IndexOf(out[1], id)].dev
                holding == Holding(arg[1].source, id, f)
            IN  after[f] = IF holding = {} THEN before[f]
                           ELSE arg[1].source[Max(holding)][f]

C30_Witness ==
    /\ scenario = "merge"
    /\ arg[1].kind = "udp"
    /\ Len(out) = 1
    /\ InMapAndUdp = {Some("1234ABCD")}
    /\ Len(arg[1].source) = 1
    /\ arg[1].target[1].dev.base_url = Some("http-base")
    /\ arg[1].source[1].base_url = Some("udp-base")
    /\ arg[1].source[1].lineup_url = None
    /\ out[1][1].dev.base_url = Some("udp-base")
    /\ out[1][1].dev.host = arg[1].target[1].dev.host
    /\ out[1][1].dev.discovery_method = Some("HTTP")

\* a branch whose request went out
Requested(found) == found.out \in {"pending", "ok", "unavailable"}

\* C31: the mode gates the branches of Discover.discover: in UDP mode no
\* HTTP directory request is made, in HTTP mode no UDP discovery request
\* is sent, and in AUTO mode both are made before the enrichment starts.
C31_ModeGatesBranches ==
    scenario = "phases" =>
        /\ mode = "UDP" => ~Requested(http_found)
        /\ mode = "HTTP" => ~Requested(udp_found)
        /\ (mode = "AUTO" /\ pc \in {"enrich", "enrich_wait", "raised", "done"}) =>
               (Requested(http_found) /\ Requested(udp_found))
        /\ (mode = "UDP" /\ pc \in {"enrich", "enrich_wait", "raised", "done"}) =>
               Requested(udp_found)
        /\ (mode = "HTTP" /\ pc \in {"udp", "enrich", "enrich_wait", "raised", "done"}) =>
               Requested(http_found)

C31_Witness ==
    /\ scenario = "phases"
    /\ mode = "UDP"
    /\ pc = "done"
    /\ http_found.out = "skipped"
    /\ udp_found.out = "ok"
    /\ Len(result) = 1

\* C32: _DiscoverProtocol sends one discovery request per call of
\* DiscoverUDP.discover: nothing is sent before the connection is made, and
\* from then on, through every datagram received and to the end of the
\* window, the one request of connection_made is all that was sent.
C32_OneRequestPerWindow ==
    scenario = "window" =>
        /\ transport = "none" => (sent = <<>> /\ heard = <<>>)
        /\ transport # "none" => sent = <<DiscoverRequest>>

C32_Witness ==
    /\ scenario = "window"
    /\ wpc = "returned"
    /\ transport = "closed"
    /\ Len(heard) = MaxUdp
    /\ Len(wresult) = MaxUdp
    /\ sent = <<DiscoverRequest>>

\* Discover.discover is over: it returned, or an exception left it
CallOver == scenario = "phases" /\ pc \in {"done", "raised"}

\* the rediscover requests the enrichment has issued
RediscoversIssued == IF pc \in {"enrich_wait", "raised"} THEN idx ELSE idx - 1

\* every call of Discover.discover comes to an end
DiscoverTerminates == <>CallOver

\* C33: with every HTTP request completing or timing out, every call of
\* Discover.discover terminates in each mode, and when it is over the
\* enrichment has issued one rediscover for each device of the map.
C33_TerminatesWithOneRediscoverEach ==
    /\ <>CallOver
    /\ [](CallOver => RediscoversIssued = Len(devices))

\* _async_gather_details_http was called and is over
Gathered == scenario = "details" /\ out # None /\ arg[1].kind = "gather_http"

\* the requests of the call that failed
FailedRequests == {i \in 1..3 : arg[1].outcomes[i] \in HttpFailures}

\* C34: when one of the three requests of _async_gather_details_http
\* fails, that failure leaves the call, none of the three results is
\* stored and _raw_details is what it was; when all three succeed and
\* decode, all three results are stored.
C34_FailedRequestStoresNothing ==
    Gathered =>
        /\ FailedRequests # {} =>
               /\ out[1].raw = arg[1].raw
               /\ \E i \in FailedRequests : out[1].exc = arg[1].outcomes[i]
        /\ (\A i \in 1..3 : arg[1].outcomes[i] = "ok") =>
               (out[1].exc = "none" /\ \A i \in 1..3 : out[1].raw[DetailKeys[i]] = Some("new"))

C34_Witness ==
    /\ Gathered
    /\ arg[1].outcomes = <<"ok", "timeout", "ok">>
    /\ arg[1].raw["discover"] = Some("old")
    /\ out[1].raw = arg[1].raw
    /\ out[1].exc = "timeout"

\* an HTTP value that is present and non-empty
PresentInJson(discover) ==
    /\ discover # None
    /\ discover[1].held
    /\ discover[1].value \notin {None, Some("")}

\* C35: a property with an HTTP and a UDP/TCP source returns the value of
\* discover.json when that value is present and non-empty, and the UDP/TCP
\* value otherwise.
C35_HttpValueUnlessEmpty ==
    (scenario = "details" /\ out # None /\ arg[1].kind = "accessor") =>
        out[1].value = IF PresentInJson(arg[1].discover)
                       THEN arg[1].discover[1].value
                       ELSE arg[1].own

\* the tags of a payload
TagsIn(payload) == {payload[i][1] : i \in 1..Len(payload)}

\* the value a payload gives a tag: that of its last entry with the tag
ValueIn(payload, tag) ==
    payload[Max({i \in 1..Len(payload) : payload[i][1] = tag})][2]

\* C36: parsing the frame build_request built from a packet type and a
\* sequence of (tag, value) entries succeeds, with the packet type as the
\* header and with the mapping of each tag of the sequence to its value.
C36_BuildThenParseRoundTrips ==
    (scenario = "codec" /\ out # None) =>
        /\ out[1].exc = "none"
        /\ out[1].header = arg[1].type
        /\ DOMAIN out[1].data = TagsIn(arg[1].payload)
        /\ \A t \in TagsIn(arg[1].payload) : out[1].data[t] = ValueIn(arg[1].payload, t)

C36_Witness ==
    /\ scenario = "codec"
    /\ out # None
    /\ arg[1].payload = << <<1, Bytes(128, 67)>>, <<3, <<65, 0>> >> >>
    /\ out[1].exc = "none"
    /\ out[1].length = 135
    /\ out[1].data[1] = Bytes(128, 67)
    /\ out[1].data[3] = <<65, 0>>

\* the devices of the returned list whose rediscover got a device
Enriched == {i \in Indices(result) : out[i].outcome = "ok"}

\* C37: in the list Discover.discover returns, a device whose enrichment
\* rediscover succeeded has discovery_method HTTP and a discover_url, and
\* each field the response gave a value for holds that value, whatever the
\* merge left there.
C37_EnrichedDeviceHoldsResponse ==
    (scenario = "phases" /\ pc = "done") =>
        \A i \in Enriched :
            /\ result[i].discovery_method = Some("HTTP")
            /\ result[i].discover_url = Some(RediscoverUrl(merged[i].dev))
            /\ \A f \in Range(JSON_PROPERTIES_MAP) :
                   out[i].updated[1][f] # None => result[i][f] = out[i].updated[1][f]

C37_Witness ==
    /\ scenario = "phases"
    /\ pc = "done"
    /\ mode = "UDP"
    /\ Enriched = {1}
    /\ merged[1].dev.discovery_method = Some("UDP")
    /\ merged[1].dev.discover_url = None
    /\ merged[1].dev.base_url = Some("udp-base")
    /\ out[1].updated[1].base_url = Some("http-base")
    /\ result[1].base_url = Some("http-base")
    /\ result[1].discovery_method = Some("HTTP")

\* C38: when the discovery Discover.rediscover runs finds no device at the
\* target's address (none at all, or only devices at other addresses), the
\* call does not raise and returns the target, with online set to false.
C38_NothingFoundReturnsTargetOffline ==
    [][RediscoverFindsNone =>
          /\ last'.exc = "none"
          /\ ret' = Some([dev EXCEPT !.is_online = FALSE])]_vars

\* the tuners of the refresh that replied
Replied == {i \in 1..Len(arg[1]) : arg[1][i] # None}

\* C39: after a control-protocol tuner refresh (discover.py) in which some
\* tuners replied and others did not, online is true if the last tuner in
\* index order replied and false if it did not, whatever the earlier tuners
\* did.
C39_LastTunerDecidesOnline ==
    (/\ scenario = "tuners"
     /\ out # None
     /\ out[1].fn = "tuner_refresh_tcp"
     /\ Replied # {}
     /\ Replied # 1..Len(arg[1])) =>
        out[1].online = (Len(arg[1]) \in Replied)

\* the same, of the refreshes whose loop ran to its end
C39_LastTunerDecidesWhenLoopEnds ==
    (/\ scenario = "tuners"
     /\ out # None
     /\ out[1].fn = "tuner_refresh_tcp"
     /\ out[1].exc = "none"
     /\ Replied # {}
     /\ Replied # 1..Len(arg[1])) =>
        out[1].online = (Len(arg[1]) \in Replied)

\* a tuner status refresh that succeeds: status.json fetched, or a reply from
\* a tuner over the control protocol
RefreshSucceeds ==
    /\ scenario = "refresh"
    /\ last' # last \/ dev' # dev
    /\ \/ /\ last'.op = "tuner_refresh_http"
          /\ last'.io[1] \in {"ok", "ok_empty"}
       \/ /\ last'.op = "tuner_refresh_tcp"
          /\ \E i \in 1..Len(last'.io) : last'.io[i] = "reply"

\* C40: a tuner status refresh that succeeds (status.json fetched, or a tuner
\* reply over the control protocol) leaves online true, also when a timeout
\* before it had set online to false: online is never false immediately
\* after a successful refresh.
C40_SuccessfulRefreshSetsOnline == [][RefreshSucceeds => dev'.is_online]_vars

\* the same, of the refreshes in which every tuner replied
C40_ReplyFromEveryTunerSetsOnline ==
    [][(RefreshSucceeds /\ \A i \in 1..Len(last'.io) : last'.io[i] # "unreachable")
          => dev'.is_online]_vars

====
